---- MODULE Spec2Model ----
(***************************************************************************)
(* Weighted compatibility graph engine (graph_utils.py, calculators.py).   *)
(*                                                                         *)
(* Python objects live in heaps: a reference is the index of the object in *)
(* its heap, so two references are the same object iff they are equal.     *)
(*   nodeHeap  Node objects        [node_id, node_type, attributes]        *)
(*   dictHeap  dict objects        insertion-ordered <<key, value>> pairs  *)
(*   edgeHeap  Edge objects        [source_node, target_node, edge_type,   *)
(*                                  attributes, weight]                    *)
(*   calcHeap  EdgeWeightCalculator objects                                *)
(*   graphs    SceneGraph objects  [nodes, edges, weight_calculator]       *)
(*   lineage   how each graph came to be (built, subgraph, copy, snapshot) *)
(*   last      the operation that led to the state, its result, and the    *)
(*             world it started from                                       *)
(* Values stored in a dict are tagged tuples: <<"num", n>>, <<"range", lo, *)
(* hi>>, <<"ref", d>> (a nested dict object), <<"loc", lon, lat>>,         *)
(* <<"reason", language, items>>, <<"speed", s>>, <<"heading", h>>,        *)
(* <<"text", fields>> (any other string, as its comma-separated fields).   *)
(* Weights are exact rationals <<numerator, denominator>>.                 *)
(***************************************************************************)
EXTENDS Integers, Sequences, FiniteSets, TLC

VARIABLES nodeHeap, dictHeap, edgeHeap, calcHeap, graphs, lineage, last, steps

vars == <<nodeHeap, dictHeap, edgeHeap, calcHeap, graphs, lineage, last, steps>>

\* Number of operations explored in one behaviour.
MaxSteps == 3

\* Python's None, for a reference field.
None == 0

(***************************************************************************)
(* Rational arithmetic for weights.                                        *)
(***************************************************************************)
Abs(x) == IF x < 0 THEN 0 - x ELSE x

RECURSIVE GCD(_, _)
GCD(a, b) == IF b = 0 THEN a ELSE GCD(b, a % b)

Rat(n, d) ==
  LET s == IF d < 0 THEN 0 - 1 ELSE 1
      g == GCD(Abs(n), Abs(d))
  IN  <<(s * n) \div g, (s * d) \div g>>

RInt(n) == <<n, 1>>
RZero == RInt(0)
RAdd(a, b) == Rat(a[1] * b[2] + b[1] * a[2], a[2] * b[2])
RSub(a, b) == Rat(a[1] * b[2] - b[1] * a[2], a[2] * b[2])
RMul(a, b) == Rat(a[1] * b[1], a[2] * b[2])
RDiv(a, b) == Rat(a[1] * b[2], a[2] * b[1])
RLt(a, b) == a[1] * b[2] < b[1] * a[2]
RLe(a, b) == a[1] * b[2] <= b[1] * a[2]
REq(a, b) == a[1] * b[2] = b[1] * a[2]

(***************************************************************************)
(* Insertion-ordered dicts.                                                *)
(***************************************************************************)
DHas(d, k) == \E i \in 1..Len(d) : d[i][1] = k
DIdx(d, k) == CHOOSE i \in 1..Len(d) : d[i][1] = k
DGet(d, k) == d[DIdx(d, k)][2]
DSet(d, k, v) ==
  IF DHas(d, k) THEN [d EXCEPT ![DIdx(d, k)] = <<k, v>>] ELSE Append(d, <<k, v>>)
DKeys(d) == {d[i][1] : i \in 1..Len(d)}

Range(s) == {s[i] : i \in 1..Len(s)}

\* F applied to the value of x, which is computed once.
Bind(x, F(_)) == CHOOSE r \in {F(v) : v \in {x}} : TRUE

\* The world: every heap, as one record that the operations thread through.
World == [nodes |-> nodeHeap, dicts |-> dictHeap, edges |-> edgeHeap,
          calcs |-> calcHeap, graphs |-> graphs]

\* dict.get(key, {}) on a node's attribute bag, following a nested dict.
AttrDict(W, n, key) ==
  LET bag == W.dicts[W.nodes[n].attributes]
  IN  IF DHas(bag, key) /\ DGet(bag, key)[1] = "ref"
        THEN W.dicts[DGet(bag, key)[2]]
        ELSE <<>>

(***************************************************************************)
(* Node and Edge construction.                                             *)
(***************************************************************************)
\* A dict literal with nested dict literals: allocates the nested dicts and
\* then the outer one. `items` are <<key, value>> pairs whose value is a
\* tagged tuple or <<"lit", pairs>> for a nested literal. Returns <<dicts, ref>>.
RECURSIVE AllocItems(_, _, _, _)
AllocItems(dicts, items, i, acc) ==
  IF i > Len(items) THEN <<Append(dicts, acc), Len(dicts) + 1>>
  ELSE IF items[i][2][1] = "lit"
    THEN Bind(Append(dicts, items[i][2][2]),
              LAMBDA inner :
                Bind(Append(acc, <<items[i][1], <<"ref", Len(inner)>>>>),
                     LAMBDA acc2 : AllocItems(inner, items, i + 1, acc2)))
    ELSE Bind(Append(acc, items[i]),
              LAMBDA acc2 : AllocItems(dicts, items, i + 1, acc2))

\* Node.__init__ with a freshly built attributes dict.
Node_init(W, node_id, node_type, attrItems) ==
  Bind(AllocItems(W.dicts, attrItems, 1, <<>>),
       LAMBDA a : [W EXCEPT !.dicts = a[1],
                            !.nodes = Append(W.nodes, [node_id |-> node_id,
                                                       node_type |-> node_type,
                                                       attributes |-> a[2]])])

\* Edge.__init__ with a freshly built attributes dict; weight starts at 0.
Edge_init(W, source_node, target_node, edge_type, attrItems) ==
  LET d == Append(W.dicts, attrItems)
  IN  [W EXCEPT !.dicts = d,
                !.edges = Append(W.edges, [source_node |-> source_node,
                                           target_node |-> target_node,
                                           edge_type |-> edge_type,
                                           attributes |-> Len(d),
                                           weight |-> RZero])]

\* Edge.set_weight
set_weight(W, e, weight) == [W EXCEPT !.edges[e].weight = weight]

\* SceneGraph.__init__
SceneGraph_init(W) ==
  [W EXCEPT !.graphs = Append(W.graphs, [nodes |-> <<>>, edges |-> <<>>,
                                         weight_calculator |-> None])]

(***************************************************************************)
(* SceneGraph: node map and edge list.                                     *)
(***************************************************************************)
NodeIds(G) == {G.nodes[i][1] : i \in 1..Len(G.nodes)}
NodeRefs(G) == {G.nodes[i][2] : i \in 1..Len(G.nodes)}

\* SceneGraph.get_node: the node under the id, or None.
get_node(G, node_id) ==
  IF node_id \in NodeIds(G)
    THEN G.nodes[CHOOSE i \in 1..Len(G.nodes) : G.nodes[i][1] = node_id][2]
    ELSE None

\* SceneGraph.add_node: [W, err].
add_node_nocheck(W, g, n) ==
  [W |-> [W EXCEPT !.graphs[g].nodes =
                     DSet(W.graphs[g].nodes, W.nodes[n].node_id, n)],
   err |-> ""]

add_node(W, g, n) ==
  IF W.nodes[n].node_id \in NodeIds(W.graphs[g])
    THEN [W |-> W, err |-> "ValueError"]
    ELSE [W |-> [W EXCEPT !.graphs[g].nodes =
                            Append(W.graphs[g].nodes, <<W.nodes[n].node_id, n>>)],
          err |-> ""]

\* SceneGraph.add_edge
add_edge(W, g, e) == [W EXCEPT !.graphs[g].edges = Append(W.graphs[g].edges, e)]

\* SceneGraph.set_weight_calculator
set_weight_calculator(W, g, c) == [W EXCEPT !.graphs[g].weight_calculator = c]

(***************************************************************************)
(* Compatibility evaluator.                                                *)
(***************************************************************************)
\* min_val <= value <= max_val, skipping the zero-width ranges.
InRange_skipzero(value, min_val, max_val) ==
  min_val = max_val \/ (min_val <= value /\ value <= max_val)

\* min_val <= value <= max_val
InRange(value, min_val, max_val) == min_val <= value /\ value <= max_val

\* The readings of env_params that violate the range that supported_env gives
\* for the same parameter, in the iteration order of env_params. The catalog's
\* ranges name numeric parameters only.
Violations(supported_env, env_params) ==
  SelectSeq(env_params,
            LAMBDA p : /\ DHas(supported_env, p[1])
                       /\ p[2][1] = "num"
                       /\ ~InRange(p[2][2], DGet(supported_env, p[1])[2],
                                   DGet(supported_env, p[1])[3]))

\* The fragments "{param} ({value}) exceeds range [{min}, {max}]. " of a reason.
ReasonItems(supported_env, env_params) ==
  LET v == Violations(supported_env, env_params)
  IN  [i \in 1..Len(v) |-> <<v[i][1], v[i][2][2], DGet(supported_env, v[i][1])[2],
                             DGet(supported_env, v[i][1])[3]>>]

\* SceneGraph.check_compatibility: [not_compatible, reason].
check_compatibility(W, equipment_node, environment_node) ==
  LET supported_env == AttrDict(W, equipment_node, "Supported_Environment")
      env_params == AttrDict(W, environment_node, "Value")
  IN  [not_compatible |-> Violations(supported_env, env_params) # <<>>,
       reason |-> <<"reason", "en", ReasonItems(supported_env, env_params)>>]

\* The nodes of a type, in the node map's iteration order.
NodesOfType(W, G, node_type) ==
  SelectSeq(G.nodes, LAMBDA p : W.nodes[p[2]].node_type = node_type)

\* The (Equipment, Environment) pairs in the order of the nested loops.
EquipEnvPairs(W, G) ==
  LET eq == NodesOfType(W, G, "Equipment")
      env == NodesOfType(W, G, "Environment")
  IN  IF Len(eq) = 0 \/ Len(env) = 0 THEN <<>>
      ELSE [k \in 1..(Len(eq) * Len(env)) |->
              <<eq[((k - 1) \div Len(env)) + 1][2], env[((k - 1) % Len(env)) + 1][2]>>]

RECURSIVE initialize_edges_loop(_, _, _, _)
initialize_edges_loop(W, g, pairs, i) ==
  IF i > Len(pairs) THEN W
  ELSE LET cc == check_compatibility(W, pairs[i][1], pairs[i][2])
       IN  IF cc.not_compatible
             THEN Bind(Edge_init(W, pairs[i][1], pairs[i][2], "NotCompatible",
                                 <<<<"Reason", cc.reason>>>>),
                       LAMBDA W2 :
                         Bind(add_edge(W2, g, Len(W2.edges)),
                              LAMBDA W3 : initialize_edges_loop(W3, g, pairs, i + 1)))
             ELSE initialize_edges_loop(W, g, pairs, i + 1)

\* SceneGraph.initialize_edges
initialize_edges(W, g) ==
  Bind(EquipEnvPairs(W, W.graphs[g]),
       LAMBDA pairs : initialize_edges_loop(W, g, pairs, 1))

\* The positions of self.edges holding a NotCompatible edge of the pair.
ExistingAt(W, g, equip_node, env_node) ==
  {k \in 1..Len(W.graphs[g].edges) :
     LET e == W.edges[W.graphs[g].edges[k]]
     IN  /\ e.source_node = equip_node
         /\ e.target_node = env_node
         /\ e.edge_type = "NotCompatible"}

Min(S) == CHOOSE x \in S : \A y \in S : x <= y

\* The body of update_relationship's loop for a violating pair, creating a
\* new edge whether or not one exists.
update_pair_always_new(W, g, equip_node, env_node, reason) ==
  Bind(Edge_init(W, equip_node, env_node, "NotCompatible", <<<<"Reason", reason>>>>),
       LAMBDA W2 : [W |-> W2, edge |-> Len(W2.edges)])

\* The body of update_relationship's loop for a violating pair: [W, edge].
update_pair(W, g, equip_node, env_node, reason) ==
  LET at == ExistingAt(W, g, equip_node, env_node)
  IN  IF at # {}
        THEN LET existing_edge == W.graphs[g].edges[Min(at)]
                 d == W.edges[existing_edge].attributes
             IN  [W |-> [W EXCEPT !.dicts[d] = DSet(@, "Reason", reason)],
                  edge |-> existing_edge]
        ELSE Bind(Edge_init(W, equip_node, env_node, "NotCompatible",
                            <<<<"Reason", reason>>>>),
                  LAMBDA W2 : [W |-> W2, edge |-> Len(W2.edges)])

RECURSIVE update_relationship_loop(_, _, _, _, _)
update_relationship_loop(W, g, pairs, i, updated_edges) ==
  IF i > Len(pairs) THEN [W EXCEPT !.graphs[g].edges = updated_edges]
  ELSE LET cc == check_compatibility(W, pairs[i][1], pairs[i][2])
       IN  IF cc.not_compatible
             THEN Bind(update_pair(W, g, pairs[i][1], pairs[i][2], cc.reason),
                       LAMBDA u :
                         Bind(Append(updated_edges, u.edge),
                              LAMBDA updated :
                                update_relationship_loop(u.W, g, pairs, i + 1, updated)))
             ELSE update_relationship_loop(W, g, pairs, i + 1, updated_edges)

\* update_relationship with updated_edges starting as the edge list.
update_relationship_appending(W, g) ==
  Bind(EquipEnvPairs(W, W.graphs[g]),
       LAMBDA pairs : update_relationship_loop(W, g, pairs, 1, W.graphs[g].edges))

\* SceneGraph.update_relationship
update_relationship(W, g) ==
  Bind(EquipEnvPairs(W, W.graphs[g]),
       LAMBDA pairs : update_relationship_loop(W, g, pairs, 1, <<>>))

\* build_equipment_environment_edges: `edge` is the function's local variable,
\* None while it is unbound. [W, err, ret].
RECURSIVE build_edges_loop(_, _, _, _, _, _)
build_edges_loop(W, g, pairs, i, edge, created_edges) ==
  IF i > Len(pairs) THEN [W |-> W, err |-> "", ret |-> created_edges]
  ELSE
    LET supported_env == AttrDict(W, pairs[i][1], "Supported_Environment")
        env_params == AttrDict(W, pairs[i][2], "Value")
        compatible_params ==
          Len(SelectSeq(env_params, LAMBDA p : DHas(supported_env, p[1])))
        not_compatible == Violations(supported_env, env_params) # <<>>
        reason == <<"reason", "zh", ReasonItems(supported_env, env_params)>>
    IN  IF supported_env = <<>> \/ env_params = <<>> \/ compatible_params = 0
          THEN build_edges_loop(W, g, pairs, i + 1, edge, created_edges)
        ELSE IF not_compatible
          THEN Bind(Edge_init(W, pairs[i][1], pairs[i][2], "NotCompatible",
                              <<<<"Reason", reason>>>>),
                    LAMBDA W2 :
                      Bind(add_edge(W2, g, Len(W2.edges)),
                           LAMBDA W3 :
                             Bind(Append(created_edges, Len(W2.edges)),
                                  LAMBDA created :
                                    build_edges_loop(W3, g, pairs, i + 1,
                                                     Len(W2.edges), created))))
        ELSE IF edge = None
          THEN [W |-> W, err |-> "UnboundLocalError", ret |-> <<>>]
        ELSE Bind(add_edge(W, g, edge),
                  LAMBDA W3 :
                    Bind(Append(created_edges, edge),
                         LAMBDA created :
                           build_edges_loop(W3, g, pairs, i + 1, edge, created)))

build_equipment_environment_edges(W, g) ==
  Bind(EquipEnvPairs(W, W.graphs[g]),
       LAMBDA pairs : build_edges_loop(W, g, pairs, 1, None, <<>>))

(***************************************************************************)
(* Weight calculators. calculate returns [err, val].                       *)
(***************************************************************************)
\* The excess-scaling literal 0.5 of the saturating score.
ExcessScale == <<1, 2>>

\* The score without the excess-scaling factor.
ExcessScore_unscaled(value, min_val, max_val) ==
  LET excess_ratio == Rat(value - max_val, max_val - min_val)
  IN  RSub(RInt(1), RDiv(RInt(1), RAdd(RInt(1), excess_ratio)))

\* One parameter's score when value > max_val.
ExcessScore(value, min_val, max_val) ==
  LET excess_ratio == Rat(value - max_val, max_val - min_val)
  IN  RSub(RInt(1), RDiv(RInt(1), RAdd(RInt(1), RMul(ExcessScale, excess_ratio))))

\* The readings that enter the score: parameter supported, range not zero.
Scorable(supported_env, env_params) ==
  SelectSeq(env_params,
            LAMBDA p : /\ DHas(supported_env, p[1])
                       /\ p[2][1] = "num"
                       /\ DGet(supported_env, p[1])[3] # DGet(supported_env, p[1])[2])

RECURSIVE SumScores(_, _, _)
SumScores(supported_env, scorable, i) ==
  IF i > Len(scorable) THEN RZero
  ELSE LET r == DGet(supported_env, scorable[i][1])
           value == scorable[i][2][2]
           weight == IF value > r[3] THEN ExcessScore(value, r[2], r[3]) ELSE RZero
       IN  Bind(SumScores(supported_env, scorable, i + 1),
                LAMBDA rest : RAdd(weight, rest))

\* CompatibilityWeightCalculator.calculate
Compatibility_calculate(W, e) ==
  LET edge == W.edges[e]
  IN  IF edge.source_node = None \/ edge.target_node = None
        THEN [err |-> "AttributeError", val |-> RZero]
      ELSE IF W.nodes[edge.source_node].node_type # "Equipment"
              \/ W.nodes[edge.target_node].node_type # "Environment"
        THEN [err |-> "", val |-> RZero]
      ELSE
        LET supported_env == AttrDict(W, edge.source_node, "Supported_Environment")
            env_params == AttrDict(W, edge.target_node, "Value")
        IN  IF supported_env = <<>> \/ env_params = <<>>
              THEN [err |-> "", val |-> RZero]
            ELSE Bind(Scorable(supported_env, env_params),
                      LAMBDA scorable :
                        IF \E i \in 1..Len(scorable) :
                             scorable[i][2][2] < DGet(supported_env, scorable[i][1])[2]
                          THEN [err |-> "ValueError", val |-> RZero]
                        ELSE IF Len(scorable) > 0
                          THEN Bind(SumScores(supported_env, scorable, 1),
                                    LAMBDA total_weight :
                                      [err |-> "",
                                       val |-> RDiv(total_weight, RInt(Len(scorable)))])
                        ELSE [err |-> "", val |-> RZero])

\* attributes.get("Location"): the value stored, <<"none">> when the key is
\* absent. A string is <<"text", fields>>, its comma-separated fields in
\* order ("" has none), or <<"loc", lon, lat>>, the two decimal numerals
\* that update_graph_with_trajectory formats; <<"num", n>> is a number.
Location(W, n) ==
  LET bag == W.dicts[W.nodes[n].attributes]
  IN  IF DHas(bag, "Location") THEN DGet(bag, "Location") ELSE <<"none">>

\* The comma-separated fields of a string. A field is <<"numeral", n>>, a
\* decimal numeral with a decimal point; <<"word">>, text without digits; or
\* <<"word_numeral", n>>, a numeral with other text around it.
Fields(v) ==
  IF v[1] = "loc" THEN <<<<"numeral", v[2]>>, <<"numeral", v[3]>>>> ELSE v[2]

\* `not location`
Falsy(v) ==
  \/ v[1] = "none"
  \/ v[1] = "text" /\ v[2] = <<>>
  \/ v[1] = "num" /\ v[2] = 0

\* a, b = map(float, location.split(",")): [err, x, y].
split_floats(v) ==
  IF v[1] \notin {"text", "loc"} THEN [err |-> "AttributeError", x |-> 0, y |-> 0]
  ELSE LET fields == Fields(v)
       IN  IF Len(fields) # 2 \/ \E i \in 1..Len(fields) : fields[i][1] # "numeral"
             THEN [err |-> "ValueError", x |-> 0, y |-> 0]
             ELSE [err |-> "", x |-> fields[1][2], y |-> fields[2][2]]

\* re.findall(r"[-+]?\d*\.\d+|\d+", location): the numerals of the string.
RECURSIVE findall(_, _)
findall(fields, i) ==
  IF i > Len(fields) THEN <<>>
  ELSE (IF fields[i][1] = "word" THEN <<>> ELSE <<fields[i][2]>>) \o findall(fields, i + 1)

\* a, b = map(float, re.findall(..., location)): [err, x, y].
findall_floats(v) ==
  IF v[1] \notin {"text", "loc"} THEN [err |-> "TypeError", x |-> 0, y |-> 0]
  ELSE LET numbers == findall(Fields(v), 1)
       IN  IF Len(numbers) # 2 THEN [err |-> "ValueError", x |-> 0, y |-> 0]
           ELSE [err |-> "", x |-> numbers[1], y |-> numbers[2]]

\* The weight returned when a location is missing or malformed.
DefaultWeight == <<1, 2>>

\* decay_factor of DistanceWeightCalculator.calculate
DecayFactor == <<1, 10>>

\* n ** 0.5, exact on the perfect squares that the locations tried produce.
Sqrt(n) == CHOOSE r \in 0..n : r * r <= n /\ n < (r + 1) * (r + 1)

\* DistanceWeightCalculator.calculate
Distance_calculate(W, e) ==
  LET edge == W.edges[e]
  IN  IF edge.source_node = None \/ edge.target_node = None
        THEN [err |-> "AttributeError", val |-> RZero]
      ELSE
        LET source_location == Location(W, edge.source_node)
            target_location == Location(W, edge.target_node)
            s == split_floats(source_location)
            t == split_floats(target_location)
        IN  IF Falsy(source_location) \/ Falsy(target_location)
              THEN [err |-> "", val |-> DefaultWeight]
            ELSE IF s.err = "AttributeError" THEN [err |-> s.err, val |-> RZero]
            ELSE IF s.err # "" THEN [err |-> "", val |-> DefaultWeight]
            ELSE IF t.err = "AttributeError" THEN [err |-> t.err, val |-> RZero]
            ELSE IF t.err # "" THEN [err |-> "", val |-> DefaultWeight]
            ELSE LET distance == Sqrt((s.x - t.x) * (s.x - t.x)
                                        + (s.y - t.y) * (s.y - t.y))
                 IN  [err |-> "",
                      val |-> RDiv(RInt(1),
                                   RAdd(RInt(1), RMul(DecayFactor, RInt(distance))))]

\* geodesic(a, b).kilometers: 0 between equal points, and otherwise the
\* distance the geodesy library yields, which the calculator object carries.
geodesic(calc, s, t) ==
  IF s.x = t.x /\ s.y = t.y THEN 0 ELSE calc.geodesic_km

\* GeoDistanceWeightCalculator.calculate
GeoDistance_calculate(W, c, e) ==
  LET edge == W.edges[e]
  IN  IF edge.source_node = None \/ edge.target_node = None
        THEN [err |-> "AttributeError", val |-> RZero]
      ELSE
        LET source_location == Location(W, edge.source_node)
            target_location == Location(W, edge.target_node)
            s == findall_floats(source_location)
            t == findall_floats(target_location)
        IN  IF Falsy(source_location) \/ Falsy(target_location)
              THEN [err |-> "", val |-> DefaultWeight]
            ELSE IF s.err # "" \/ t.err # "" THEN [err |-> "", val |-> DefaultWeight]
            ELSE LET distance == geodesic(W.calcs[c], s, t)
                 IN  IF distance >= W.calcs[c].max_distance
                       THEN [err |-> "", val |-> RZero]
                       ELSE [err |-> "",
                             val |-> RSub(RInt(1),
                                          Rat(distance, W.calcs[c].max_distance))]

\* should_filter with strict comparisons in the modes "less" and "greater".
should_filter_strict(calc, filter_value) ==
  IF calc.filter_mode = "equal" THEN REq(filter_value, calc.filter_threshold)
  ELSE IF calc.filter_mode = "less" THEN RLt(filter_value, calc.filter_threshold)
  ELSE IF calc.filter_mode = "greater" THEN RLt(calc.filter_threshold, filter_value)
  ELSE FALSE

\* should_filter with the comparisons of "less" and "greater" exchanged.
should_filter_swapped(calc, filter_value) ==
  IF calc.filter_mode = "equal" THEN REq(filter_value, calc.filter_threshold)
  ELSE IF calc.filter_mode = "less" THEN RLe(calc.filter_threshold, filter_value)
  ELSE IF calc.filter_mode = "greater" THEN RLe(filter_value, calc.filter_threshold)
  ELSE FALSE

\* CompositeWeightCalculator.should_filter
should_filter(calc, filter_value) ==
  IF calc.filter_mode = "equal" THEN REq(filter_value, calc.filter_threshold)
  ELSE IF calc.filter_mode = "less" THEN RLe(filter_value, calc.filter_threshold)
  ELSE IF calc.filter_mode = "greater" THEN RLe(calc.filter_threshold, filter_value)
  ELSE FALSE

\* EdgeWeightCalculator.calculate, dispatched on the calculator's class.
RECURSIVE calculate(_, _, _)

\* The loop with `total_factor += 1`: the entries are counted, not their
\* factors added.
RECURSIVE Composite_sum_counting(_, _, _, _, _)
Composite_sum_counting(W, c, e, i, filter_value) ==
  LET calc == W.calcs[c]
  IN  IF i > Len(calc.calculators)
        THEN [err |-> "", total_weight |-> RZero, total_factor |-> RZero]
      ELSE
        LET calculator == calc.calculators[i][1]
            factor == calc.calculators[i][2]
        IN  Bind(IF calc.filter_calculator # None /\ calculator = calc.filter_calculator
                   THEN [err |-> "", val |-> filter_value]
                   ELSE calculate(W, calculator, e),
                 LAMBDA r :
                   IF r.err # "" THEN [err |-> r.err, total_weight |-> RZero,
                                       total_factor |-> RZero]
                   ELSE Bind(Composite_sum_counting(W, c, e, i + 1, filter_value),
                             LAMBDA rest :
                               [err |-> rest.err,
                                total_weight |-> RAdd(RMul(r.val, factor),
                                                      rest.total_weight),
                                total_factor |-> RAdd(RInt(1), rest.total_factor)]))

\* The weighted sum of CompositeWeightCalculator.calculate's loop from entry i:
\* [err, total_weight, total_factor].
RECURSIVE Composite_sum(_, _, _, _, _)
Composite_sum(W, c, e, i, filter_value) ==
  LET calc == W.calcs[c]
  IN  IF i > Len(calc.calculators)
        THEN [err |-> "", total_weight |-> RZero, total_factor |-> RZero]
      ELSE
        LET calculator == calc.calculators[i][1]
            factor == calc.calculators[i][2]
        IN  Bind(IF calc.filter_calculator # None /\ calculator = calc.filter_calculator
                   THEN [err |-> "", val |-> filter_value]
                   ELSE calculate(W, calculator, e),
                 LAMBDA r :
                   IF r.err # "" THEN [err |-> r.err, total_weight |-> RZero,
                                       total_factor |-> RZero]
                   ELSE Bind(Composite_sum(W, c, e, i + 1, filter_value),
                             LAMBDA rest :
                               [err |-> rest.err,
                                total_weight |-> RAdd(RMul(r.val, factor),
                                                      rest.total_weight),
                                total_factor |-> RAdd(factor, rest.total_factor)]))

\* CompositeWeightCalculator.calculate
Composite_calculate(W, c, e) ==
  LET calc == W.calcs[c]
  IN  IF calc.calculators = <<>> THEN [err |-> "", val |-> RZero]
      ELSE
        Bind(IF calc.filter_calculator # None
               THEN calculate(W, calc.filter_calculator, e)
               ELSE [err |-> "", val |-> RZero],
             LAMBDA f :
               IF f.err # "" THEN f
               ELSE IF calc.filter_calculator # None /\ should_filter(calc, f.val)
                 THEN [err |-> "", val |-> RZero]
               ELSE Bind(Composite_sum(W, c, e, 1, f.val),
                         LAMBDA s :
                           IF s.err # "" THEN [err |-> s.err, val |-> RZero]
                           ELSE IF RLt(RZero, s.total_factor)
                             THEN [err |-> "",
                                   val |-> RDiv(s.total_weight, s.total_factor)]
                           ELSE [err |-> "", val |-> RZero]))

calculate(W, c, e) ==
  IF W.calcs[c].kind = "Composite" THEN Composite_calculate(W, c, e)
  ELSE IF W.calcs[c].kind = "Distance" THEN Distance_calculate(W, e)
  ELSE IF W.calcs[c].kind = "GeoDistance" THEN GeoDistance_calculate(W, c, e)
  ELSE Compatibility_calculate(W, e)

\* The loop invoking every entry of the list, the filter included.
RECURSIVE Composite_loop_invocations_repeating(_, _, _, _)
Composite_loop_invocations_repeating(W, c, e, i) ==
  LET calc == W.calcs[c]
  IN  IF i > Len(calc.calculators) THEN <<>>
      ELSE LET calculator == calc.calculators[i][1]
           IN  IF calculate(W, calculator, e).err # "" THEN <<calculator>>
               ELSE <<calculator>> \o Composite_loop_invocations_repeating(W, c, e, i + 1)

\* The calculators whose calculate the loop of CompositeWeightCalculator.calculate
\* invokes from entry i on, in the order of the invocations.
RECURSIVE Composite_loop_invocations(_, _, _, _)
Composite_loop_invocations(W, c, e, i) ==
  LET calc == W.calcs[c]
  IN  IF i > Len(calc.calculators) THEN <<>>
      ELSE LET calculator == calc.calculators[i][1]
           IN  IF calc.filter_calculator # None /\ calculator = calc.filter_calculator
                 THEN Composite_loop_invocations(W, c, e, i + 1)
               ELSE IF calculate(W, calculator, e).err # "" THEN <<calculator>>
               ELSE <<calculator>> \o Composite_loop_invocations(W, c, e, i + 1)

\* The calculators whose calculate one call of CompositeWeightCalculator.calculate
\* invokes, in the order of the invocations.
Composite_invocations(W, c, e) ==
  LET calc == W.calcs[c]
  IN  IF calc.calculators = <<>> THEN <<>>
      ELSE IF calc.filter_calculator = None THEN Composite_loop_invocations(W, c, e, 1)
      ELSE Bind(calculate(W, calc.filter_calculator, e),
                LAMBDA f :
                  IF f.err # "" \/ should_filter(calc, f.val)
                    THEN <<calc.filter_calculator>>
                    ELSE <<calc.filter_calculator>>
                           \o Composite_loop_invocations(W, c, e, 1))

\* A calculator object as constructed.
Calculator_init(kind) ==
  [kind |-> kind, calculators |-> <<>>, filter_calculator |-> None,
   filter_threshold |-> RZero, filter_mode |-> "equal"]

\* GeoDistanceWeightCalculator(max_distance), with the distance in kilometres
\* that the geodesy library yields between two different points.
GeoDistance_init(max_distance, geodesic_km) ==
  [kind |-> "GeoDistance", calculators |-> <<>>, filter_calculator |-> None,
   filter_threshold |-> RZero, filter_mode |-> "equal",
   max_distance |-> max_distance, geodesic_km |-> geodesic_km]

\* CompositeWeightCalculator.add_calculator
add_calculator(W, c, calculator, weight) ==
  [W EXCEPT !.calcs[c].calculators = Append(@, <<calculator, weight>>)]

\* CompositeWeightCalculator.set_filter
set_filter(W, c, calculator, threshold, mode) ==
  [W EXCEPT !.calcs[c].filter_calculator = calculator,
            !.calcs[c].filter_threshold = threshold,
            !.calcs[c].filter_mode = mode]

\* The loop with `return self.edges` inside its body: one edge is weighted.
calculate_edge_weights_loop_return_inside(W, g, i) ==
  IF i > Len(W.graphs[g].edges) THEN [W |-> W, err |-> ""]
  ELSE LET e == W.graphs[g].edges[i]
       IN  Bind(calculate(W, W.graphs[g].weight_calculator, e),
                LAMBDA r :
                  IF r.err # "" THEN [W |-> W, err |-> r.err]
                  ELSE [W |-> set_weight(W, e, r.val), err |-> ""])

\* The loop weighting no edge unless every edge can be weighted.
RECURSIVE calculate_edge_weights_loop_atomic(_, _, _)
calculate_edge_weights_loop_atomic(W, g, i) ==
  LET edges == W.graphs[g].edges
      failing == {j \in i..Len(edges) :
                    calculate(W, W.graphs[g].weight_calculator, edges[j]).err # ""}
  IN  IF i > Len(edges) THEN [W |-> W, err |-> ""]
      ELSE IF failing # {}
        THEN [W |-> W,
              err |-> calculate(W, W.graphs[g].weight_calculator,
                                edges[CHOOSE j \in failing : TRUE]).err]
      ELSE Bind(set_weight(W, edges[i],
                           calculate(W, W.graphs[g].weight_calculator, edges[i]).val),
                LAMBDA W2 : calculate_edge_weights_loop_atomic(W2, g, i + 1))

\* SceneGraph.calculate_edge_weights from position i of the edge list: [W, err].
RECURSIVE calculate_edge_weights_loop(_, _, _)
calculate_edge_weights_loop(W, g, i) ==
  IF i > Len(W.graphs[g].edges) THEN [W |-> W, err |-> ""]
  ELSE LET e == W.graphs[g].edges[i]
       IN  Bind(calculate(W, W.graphs[g].weight_calculator, e),
                LAMBDA r :
                  IF r.err # "" THEN [W |-> W, err |-> r.err]
                  ELSE Bind(set_weight(W, e, r.val),
                            LAMBDA W2 : calculate_edge_weights_loop(W2, g, i + 1)))

\* calculate_edge_weights without the early return: the missing calculator
\* is called.
calculate_edge_weights_unguarded(W, g) ==
  IF W.graphs[g].weight_calculator = None THEN [W |-> W, err |-> "AttributeError"]
  ELSE calculate_edge_weights_loop(W, g, 1)

\* SceneGraph.calculate_edge_weights
calculate_edge_weights(W, g) ==
  IF W.graphs[g].weight_calculator = None THEN [W |-> W, err |-> ""]
  ELSE calculate_edge_weights_loop(W, g, 1)

(***************************************************************************)
(* Removal, filtering, extraction.                                         *)
(***************************************************************************)
\* list.remove: drops the first occurrence.
ListRemove(s, x) ==
  LET k == Min({i \in 1..Len(s) : s[i] = x})
  IN  SubSeq(s, 1, k - 1) \o SubSeq(s, k + 1, Len(s))

\* SceneGraph.remove_edge: [W, ret].
remove_edge(W, g, e) ==
  IF e \in Range(W.graphs[g].edges)
    THEN [W |-> [W EXCEPT !.graphs[g].edges = ListRemove(@, e)], ret |-> TRUE]
    ELSE [W |-> W, ret |-> FALSE]

\* The comparison of remove_edges_by_weight, with "less" read as <=.
WeightMatches_lessIsLe(condition, weight, threshold) ==
  \/ condition = "equal" /\ REq(weight, threshold)
  \/ condition = "less" /\ RLe(weight, threshold)
  \/ condition = "less_equal" /\ RLe(weight, threshold)
  \/ condition = "greater" /\ RLt(threshold, weight)
  \/ condition = "greater_equal" /\ RLe(threshold, weight)

\* The comparison of remove_edges_by_weight.
WeightMatches(condition, weight, threshold) ==
  \/ condition = "equal" /\ REq(weight, threshold)
  \/ condition = "less" /\ RLt(weight, threshold)
  \/ condition = "less_equal" /\ RLe(weight, threshold)
  \/ condition = "greater" /\ RLt(threshold, weight)
  \/ condition = "greater_equal" /\ RLe(threshold, weight)

RECURSIVE RemoveAll(_, _, _)
RemoveAll(edges, edges_to_remove, i) ==
  IF i > Len(edges_to_remove) THEN edges
  ELSE Bind(ListRemove(edges, edges_to_remove[i]),
            LAMBDA rest : RemoveAll(rest, edges_to_remove, i + 1))

\* remove_edges_by_weight removing the first matching edge only.
remove_edges_by_weight_first(W, g, condition, threshold) ==
  Bind(SelectSeq(W.graphs[g].edges,
                 LAMBDA e : WeightMatches(condition, W.edges[e].weight, threshold)),
       LAMBDA edges_to_remove :
         IF edges_to_remove = <<>> THEN [W |-> W, ret |-> 0]
         ELSE [W |-> [W EXCEPT !.graphs[g].edges =
                        RemoveAll(@, <<edges_to_remove[1]>>, 1)],
               ret |-> 1])

\* remove_edges_by_weight that recomputes the weights before it compares them.
remove_edges_by_weight_recalculating(W, g, condition, threshold) ==
  Bind(calculate_edge_weights(W, g).W,
       LAMBDA W2 :
         Bind(SelectSeq(W2.graphs[g].edges,
                        LAMBDA e : WeightMatches(condition, W2.edges[e].weight,
                                                 threshold)),
              LAMBDA edges_to_remove :
                [W |-> [W2 EXCEPT !.graphs[g].edges = RemoveAll(@, edges_to_remove, 1)],
                 ret |-> Len(edges_to_remove)]))

\* SceneGraph.remove_edges_by_weight: [W, ret].
remove_edges_by_weight(W, g, condition, threshold) ==
  Bind(SelectSeq(W.graphs[g].edges,
                 LAMBDA e : WeightMatches(condition, W.edges[e].weight, threshold)),
       LAMBDA edges_to_remove :
         [W |-> [W EXCEPT !.graphs[g].edges = RemoveAll(@, edges_to_remove, 1)],
          ret |-> Len(edges_to_remove)])

\* float('inf'), the default max_weight.
Inf == <<1, 0>>

\* extract_subgraph's edge_filter, without the upper bound.
edge_filter_nomax(W, e, min_weight, max_weight, edge_types) ==
  /\ ~RLt(W.edges[e].weight, min_weight)
  /\ (edge_types = {} \/ W.edges[e].edge_type \in edge_types)

\* extract_subgraph's edge_filter; edge_types = {} stands for None or [].
edge_filter(W, e, min_weight, max_weight, edge_types) ==
  /\ ~(RLt(W.edges[e].weight, min_weight) \/ RLt(max_weight, W.edges[e].weight))
  /\ (edge_types = {} \/ W.edges[e].edge_type \in edge_types)

\* SceneGraph.filter_edges with edge_filter
filter_edges(W, g, min_weight, max_weight, edge_types) ==
  SelectSeq(W.graphs[g].edges,
            LAMBDA e : edge_filter(W, e, min_weight, max_weight, edge_types))

\* The endpoints of the edges, as node objects.
Endpoints(W, edges) ==
  {W.edges[edges[i]].source_node : i \in 1..Len(edges)}
    \cup {W.edges[edges[i]].target_node : i \in 1..Len(edges)}

\* included_nodes of extract_subgraph.
included_nodes(W, filtered_edges) ==
  {W.nodes[n].node_id : n \in Endpoints(W, filtered_edges) \ {None}}

RECURSIVE AddNodes(_, _, _, _, _)
AddNodes(W, from, to, order, i) ==
  IF i > Len(order) THEN W
  ELSE Bind(add_node(W, to, get_node(W.graphs[from], order[i])).W,
            LAMBDA W2 : AddNodes(W2, from, to, order, i + 1))

\* The subgraph's edges as new Edge objects with the parent's values.
RECURSIVE AddEdges_copying(_, _, _, _)
AddEdges_copying(W, to, edges, i) ==
  IF i > Len(edges) THEN W
  ELSE LET edge == W.edges[edges[i]]
       IN  Bind(Edge_init(W, edge.source_node, edge.target_node, edge.edge_type, <<>>),
                LAMBDA W2 :
                  Bind(add_edge(set_weight(W2, Len(W2.edges), edge.weight), to,
                                Len(W2.edges)),
                       LAMBDA W3 : AddEdges_copying(W3, to, edges, i + 1)))

RECURSIVE AddEdges(_, _, _, _)
AddEdges(W, to, edges, i) ==
  IF i > Len(edges) THEN W
  ELSE Bind(add_edge(W, to, edges[i]),
            LAMBDA W2 : AddEdges(W2, to, edges, i + 1))

\* SceneGraph.extract_subgraph; `order` is the iteration order of the set
\* included_nodes. [W, err, ret]: ret is the subgraph, the last graph of W.
extract_subgraph(W, g, min_weight, max_weight, edge_types, order) ==
  Bind(calculate_edge_weights(W, g),
       LAMBDA c :
         IF c.err # "" THEN [W |-> c.W, err |-> c.err, ret |-> None]
         ELSE
           Bind(filter_edges(c.W, g, min_weight, max_weight, edge_types),
                LAMBDA filtered_edges :
                  IF None \in Endpoints(c.W, filtered_edges)
                    THEN [W |-> c.W, err |-> "AttributeError", ret |-> None]
                  ELSE IF ~(included_nodes(c.W, filtered_edges)
                              \subseteq NodeIds(c.W.graphs[g]))
                    THEN [W |-> c.W, err |-> "KeyError", ret |-> None]
                  ELSE
                    Bind(SceneGraph_init(c.W),
                         LAMBDA W1 :
                           Bind(AddNodes(W1, g, Len(W1.graphs), order, 1),
                                LAMBDA W2 :
                                  Bind(AddEdges(W2, Len(W1.graphs), filtered_edges, 1),
                                       LAMBDA W3 :
                                         [W |-> set_weight_calculator(
                                                  W3, Len(W1.graphs),
                                                  c.W.graphs[g].weight_calculator),
                                          err |-> "", ret |-> Len(W1.graphs)])))))

(***************************************************************************)
(* copy_graph.                                                             *)
(***************************************************************************)
\* copy.copy of a dict: a new outer dict whose nested dicts are shared.
shallowcopy(dicts, d) == <<Append(dicts, dicts[d]), Len(dicts) + 1>>

RECURSIVE deepcopy_items(_, _, _, _)
deepcopy_items(dicts, src, i, acc) ==
  IF i > Len(src) THEN <<Append(dicts, acc), Len(dicts) + 1>>
  ELSE IF src[i][2][1] = "ref"
    THEN Bind(deepcopy_items(dicts, dicts[src[i][2][2]], 1, <<>>),
              LAMBDA inner :
                Bind(Append(acc, <<src[i][1], <<"ref", inner[2]>>>>),
                     LAMBDA acc2 : deepcopy_items(inner[1], src, i + 1, acc2)))
    ELSE Bind(Append(acc, src[i]),
              LAMBDA acc2 : deepcopy_items(dicts, src, i + 1, acc2))

\* copy.deepcopy of a dict: <<dicts, ref of the copy>>.
deepcopy(dicts, d) == deepcopy_items(dicts, dicts[d], 1, <<>>)

\* The node loop of copy_graph.
RECURSIVE copy_nodes(_, _, _, _)
copy_nodes(W, graph, new_graph, i) ==
  IF i > Len(W.graphs[graph].nodes) THEN W
  ELSE LET node == W.nodes[W.graphs[graph].nodes[i][2]]
       IN  Bind(deepcopy(W.dicts, node.attributes),
                LAMBDA a :
                  Bind([W EXCEPT !.dicts = a[1],
                                 !.nodes = Append(@, [node_id |-> node.node_id,
                                                      node_type |-> node.node_type,
                                                      attributes |-> a[2]])],
                       LAMBDA W2 :
                         Bind(add_node(W2, new_graph, Len(W2.nodes)).W,
                              LAMBDA W3 : copy_nodes(W3, graph, new_graph, i + 1))))

\* The edge loop of copy_graph.
RECURSIVE copy_edges(_, _, _, _)
copy_edges(W, graph, new_graph, i) ==
  IF i > Len(W.graphs[graph].edges) THEN W
  ELSE LET edge == W.edges[W.graphs[graph].edges[i]]
           source_node == get_node(W.graphs[new_graph], W.nodes[edge.source_node].node_id)
           target_node == get_node(W.graphs[new_graph], W.nodes[edge.target_node].node_id)
       IN  Bind(deepcopy(W.dicts, edge.attributes),
                LAMBDA a :
                  Bind([W EXCEPT !.dicts = a[1],
                                 !.edges = Append(@, [source_node |-> source_node,
                                                      target_node |-> target_node,
                                                      edge_type |-> edge.edge_type,
                                                      attributes |-> a[2],
                                                      weight |-> edge.weight])],
                       LAMBDA W2 :
                         Bind(add_edge(W2, new_graph, Len(W2.edges)),
                              LAMBDA W3 : copy_edges(W3, graph, new_graph, i + 1))))

\* The calculator that copy_graph gives the new graph.
copy_calculator(W, graph) == W.graphs[graph].weight_calculator

\* copy_graph: [W, err, ret]; ret is the copy, the last graph of W.
copy_graph(W, graph) ==
  IF None \in Endpoints(W, W.graphs[graph].edges)
    THEN [W |-> W, err |-> "AttributeError", ret |-> None]
    ELSE
      Bind(SceneGraph_init(W),
           LAMBDA W1 :
             Bind(copy_nodes(W1, graph, Len(W1.graphs), 1),
                  LAMBDA W2 :
                    Bind(copy_edges(W2, graph, Len(W1.graphs), 1),
                         LAMBDA W3 :
                           [W |-> set_weight_calculator(W3, Len(W1.graphs),
                                                        copy_calculator(W, graph)),
                            err |-> "", ret |-> Len(W1.graphs)])))

(***************************************************************************)
(* Node.update_attribute (graph.py: a key missing on the path is an error). *)
(***************************************************************************)
RECURSIVE graph_update_path(_, _, _, _, _)
graph_update_path(dicts, current, path, i, value) ==
  IF ~DHas(dicts[current], path[i]) THEN [dicts |-> dicts, err |-> "KeyError"]
  ELSE IF i = Len(path)
    THEN [dicts |-> [dicts EXCEPT ![current] = DSet(@, path[i], value)], err |-> ""]
  ELSE IF DGet(dicts[current], path[i])[1] # "ref"
    THEN [dicts |-> dicts, err |-> "TypeError"]
  ELSE graph_update_path(dicts, DGet(dicts[current], path[i])[2], path, i + 1, value)

\* graph.py's Node.update_attribute with one (path, value): [W, err].
graph_update_attribute(W, n, path, value) ==
  Bind(graph_update_path(W.dicts, W.nodes[n].attributes, path, 1, value),
       LAMBDA r : [W |-> [W EXCEPT !.dicts = r.dicts], err |-> r.err])

(***************************************************************************)
(* Node.update_attribute (graph_utils.py: missing containers are created). *)
(***************************************************************************)
\* update_path with the KeyError of the commented-out lines restored.
RECURSIVE update_path_raising(_, _, _, _, _)
update_path_raising(dicts, current, path, i, value) ==
  IF ~DHas(dicts[current], path[i]) THEN [dicts |-> dicts, err |-> "KeyError"]
  ELSE IF i = Len(path)
    THEN [dicts |-> [dicts EXCEPT ![current] = DSet(@, path[i], value)], err |-> ""]
  ELSE update_path_raising(dicts, DGet(dicts[current], path[i])[2], path, i + 1, value)

RECURSIVE update_path(_, _, _, _, _)
update_path(dicts, current, path, i, value) ==
  IF i = Len(path) THEN [dicts |-> [dicts EXCEPT ![current] = DSet(@, path[i], value)],
                         err |-> ""]
  ELSE IF ~DHas(dicts[current], path[i])
    THEN Bind([Append(dicts, <<>>) EXCEPT
                 ![current] = DSet(@, path[i], <<"ref", Len(dicts) + 1>>)],
              LAMBDA d3 : update_path(d3, Len(d3), path, i + 1, value))
  ELSE IF DGet(dicts[current], path[i])[1] # "ref"
    THEN [dicts |-> dicts, err |-> "TypeError"]
  ELSE update_path(dicts, DGet(dicts[current], path[i])[2], path, i + 1, value)

\* Node.update_attribute with one (path, value): [W, err].
update_attribute(W, n, path, value) ==
  Bind(update_path(W.dicts, W.nodes[n].attributes, path, 1, value),
       LAMBDA r : [W |-> [W EXCEPT !.dicts = r.dicts], err |-> r.err])

(***************************************************************************)
(* Temporal snapshots.                                                     *)
(***************************************************************************)
\* update_graph_with_trajectory without the recomputation of the weights:
\* the sample is written and the edges of weight 0 are removed.
update_graph_with_trajectory_stale(W, graph, cols, trajectory_point, ship_node_id) ==
  LET ship_node == get_node(W.graphs[graph], ship_node_id)
  IN  IF ship_node = None THEN [W |-> W, err |-> ""]
      ELSE
        Bind(update_attribute(W, ship_node, <<"Location">>,
                              <<"loc", trajectory_point.longitude,
                                trajectory_point.latitude>>),
             LAMBDA u1 :
               Bind(IF "speed_knots" \in cols
                      THEN update_attribute(u1.W, ship_node, <<"Value", "Speed">>,
                                            <<"speed", trajectory_point.speed_knots>>)
                      ELSE u1,
                    LAMBDA u2 :
                      Bind(IF "heading" \in cols
                             THEN update_attribute(u2.W, ship_node,
                                                   <<"Value", "Heading">>,
                                                   <<"heading", trajectory_point.heading>>)
                             ELSE u2,
                           LAMBDA u3 :
                             [W |-> remove_edges_by_weight(u3.W, graph, "equal", RZero).W,
                              err |-> ""])))

\* update_graph_with_trajectory: [W, err]. The sample's coordinates, speed
\* and heading are multiples of the precision they are formatted with.
update_graph_with_trajectory(W, graph, cols, trajectory_point, ship_node_id) ==
  LET ship_node == get_node(W.graphs[graph], ship_node_id)
  IN  IF ship_node = None THEN [W |-> W, err |-> ""]
      ELSE
        Bind(update_attribute(W, ship_node, <<"Location">>,
                              <<"loc", trajectory_point.longitude,
                                trajectory_point.latitude>>),
             LAMBDA u1 :
               Bind(IF "speed_knots" \in cols
                      THEN update_attribute(u1.W, ship_node, <<"Value", "Speed">>,
                                            <<"speed", trajectory_point.speed_knots>>)
                      ELSE u1,
                    LAMBDA u2 :
                      Bind(IF "heading" \in cols
                             THEN update_attribute(u2.W, ship_node,
                                                   <<"Value", "Heading">>,
                                                   <<"heading", trajectory_point.heading>>)
                             ELSE u2,
                           LAMBDA u3 :
                             Bind(calculate_edge_weights(u3.W, graph),
                                  LAMBDA c :
                                    IF c.err # "" THEN c
                                    ELSE [W |-> remove_edges_by_weight(
                                                  c.W, graph, "equal", RZero).W,
                                          err |-> ""]))))

\* DataFrame.sort_values('timestamp'): rows keep their labels.
RECURSIVE InsertSorted(_, _)
InsertSorted(sorted, row) ==
  IF sorted = <<>> THEN <<row>>
  ELSE IF sorted[Len(sorted)].timestamp <= row.timestamp THEN Append(sorted, row)
  ELSE Bind(InsertSorted(SubSeq(sorted, 1, Len(sorted) - 1), row),
            LAMBDA front : Append(front, sorted[Len(sorted)]))

RECURSIVE sort_values(_, _)
sort_values(rows, i) ==
  IF i = 0 THEN <<>>
  ELSE Bind(sort_values(rows, i - 1), LAMBDA sorted : InsertSorted(sorted, rows[i]))

Floor(r) == r[1] \div r[2]
MinOf(a, b) == IF a < b THEN a ELSE b

\* The interval after the widening that keeps the count within max_graphs.
widened_interval(total_minutes, interval_minutes, max_graphs) ==
  IF RLt(RInt(max_graphs), Rat(total_minutes, interval_minutes))
    THEN Rat(total_minutes, max_graphs)
    ELSE RInt(interval_minutes)

\* num_points without the cap min(max_graphs, ...).
num_points_uncapped(total_minutes, interval, max_graphs) ==
  Floor(RDiv(RInt(total_minutes), interval)) + 1

num_points(total_minutes, interval, max_graphs) ==
  MinOf(max_graphs, Floor(RDiv(RInt(total_minutes), interval)) + 1)

RAbs(r) == <<Abs(r[1]), r[2]>>

\* Series.idxmin of |timestamp - current_time|: the label of the first row
\* with the least difference.
closest_idx(df, current_time) ==
  LET diff(k) == RAbs(RSub(RInt(df[k].timestamp), current_time))
      best == Min({k \in 1..Len(df) : \A j \in 1..Len(df) : RLe(diff(k), diff(j))})
  IN  df[best].label

\* The sampled ticks and the index chosen for each, with a timestamp column.
sample_times(df, interval_minutes, max_graphs) ==
  LET start_time == df[1].timestamp
      total_minutes == df[Len(df)].timestamp - start_time
      interval == widened_interval(total_minutes, interval_minutes, max_graphs)
      n == num_points(total_minutes, interval, max_graphs)
  IN  [i \in 1..n |-> RAdd(RInt(start_time), RMul(RInt(i - 1), interval))]

\* np.linspace(0, len - 1, count) truncated to integers, without timestamps.
linspace_indices(len, count) ==
  [i \in 1..count |-> IF count = 1 THEN 0 ELSE ((i - 1) * (len - 1)) \div (count - 1)]

\* The loop of create_dynamic_graph_series over the chosen indices.
RECURSIVE graph_series_loop(_, _, _, _, _, _, _, _)
graph_series_loop(W, base_graph, cols, df, indices, i, ship_node_id, graph_series) ==
  IF i > Len(indices) THEN [W |-> W, err |-> "", ret |-> graph_series]
  ELSE
    Bind(copy_graph(W, base_graph),
         LAMBDA c :
           IF c.err # "" THEN [W |-> W, err |-> c.err, ret |-> <<>>]
           ELSE
             Bind(update_graph_with_trajectory(c.W, c.ret, cols, df[indices[i] + 1],
                                               ship_node_id),
                  LAMBDA u :
                    IF u.err # "" THEN [W |-> W, err |-> u.err, ret |-> <<>>]
                    ELSE Bind(Append(graph_series, c.ret),
                              LAMBDA series :
                                graph_series_loop(u.W, base_graph, cols, df, indices,
                                                  i + 1, ship_node_id, series))))

\* create_dynamic_graph_series: [W, err, ret, timestamps]. A trajectory is
\* [cols, rows]; the graphs an aborted call had built are unreachable and
\* are left out of the heaps.
create_dynamic_graph_series(W, trajectory_df, base_graph, ship_node_id, interval_minutes, max_graphs) ==
  LET timed == "timestamp" \in trajectory_df.cols
  IN  Bind(IF timed THEN sort_values(trajectory_df.rows, Len(trajectory_df.rows))
                    ELSE trajectory_df.rows,
        LAMBDA df :
          Bind(IF timed THEN sample_times(df, interval_minutes, max_graphs) ELSE <<>>,
            LAMBDA times :
              Bind(IF timed
                     THEN [i \in 1..Len(times) |-> closest_idx(df, times[i])]
                     ELSE linspace_indices(Len(df), MinOf(max_graphs, Len(df))),
                LAMBDA indices :
                  Bind(graph_series_loop(W, base_graph, trajectory_df.cols, df,
                                         indices, 1, ship_node_id, <<>>),
                    LAMBDA r :
                      [W |-> IF r.err = "" THEN r.W ELSE W, err |-> r.err,
                       ret |-> r.ret,
                       timestamps |->
                         IF timed THEN [i \in 1..Len(times) |-> Floor(times[i])]
                                  ELSE [i \in 1..Len(indices) |-> i]]))))

(***************************************************************************)
(* The nodes, calculators and trajectories the operations are tried on.    *)
(***************************************************************************)
Equipment(node_id, supported) ==
  [node_id |-> node_id, node_type |-> "Equipment",
   attrs |-> <<<<"Location", <<"loc", 0, 0>>>>,
               <<"Supported_Environment", <<"lit", supported>>>>>>]

Environment(node_id, value) ==
  [node_id |-> node_id, node_type |-> "Environment",
   attrs |-> <<<<"Location", <<"loc", 3, 4>>>>, <<"Value", <<"lit", value>>>>>>]

Eq1 == Equipment("eq1", <<<<"Temperature", <<"range", 0, 2>>>>>>)
\* A zero-width Temperature range.
Eq2 == Equipment("eq2", <<<<"Temperature", <<"range", 1, 1>>>>,
                          <<"Humidity", <<"range", 0, 1>>>>>>)
Env1(t) == Environment("env1", <<<<"Temperature", <<"num", t>>>>>>)
Env2 == Environment("env2", <<<<"Humidity", <<"num", 2>>>>,
                              <<"Temperature", <<"num", 1>>>>>>)
Env3 == Environment("env3", <<<<"Temperature", <<"num", 2>>>>>>)
Sensor == [node_id |-> "s1", node_type |-> "Sensor",
           attrs |-> <<<<"Location", <<"loc", 1, 1>>>>>>]
\* A second node object carrying the id eq1.
Eq1Again == Environment("eq1", <<<<"Temperature", <<"num", 5>>>>>>)

\* The node lists a graph is built from before the operations start.
InitNodeLists ==
  { <<Eq1, Env1(3)>>,
    <<Eq1, Env1(1), Env2>>,
    <<Eq1, Eq2, Env1(6), Env3>>,
    <<Eq1, Env1(0 - 1)>>,
    <<Eq1, Env1(6), Environment("env4", <<<<"Temperature", <<"num", 0 - 1>>>>>>)>>,
    <<Sensor, Eq2, Env1(1)>> }

\* Nodes constructed later, outside any graph.
LaterNodes == {Eq1Again, Env2}

InitCalculators == {"none", "Compatibility", "Composite"}

EmptyWorld == [nodes |-> <<>>, dicts |-> <<>>, edges |-> <<>>, calcs |-> <<>>,
               graphs |-> <<>>]

RECURSIVE BuildNodes(_, _, _)
BuildNodes(W, list, i) ==
  IF i > Len(list) THEN W
  ELSE Bind(Node_init(W, list[i].node_id, list[i].node_type, list[i].attrs),
            LAMBDA W2 :
              Bind(add_node(W2, 1, Len(W2.nodes)).W,
                   LAMBDA W3 : BuildNodes(W3, list, i + 1)))

\* graph = SceneGraph(); graph.add_node(...) for each node of the list;
\* graph.set_weight_calculator(...) when a calculator is chosen.
BuildWorld(list, calculator) ==
  LET compat == Calculator_init("Compatibility")
      composite == [Calculator_init("Composite") EXCEPT
                      !.calculators = <<<<1, RInt(1)>>>>]
  IN  Bind(BuildNodes(SceneGraph_init(EmptyWorld), list, 1),
           LAMBDA W1 :
             IF calculator = "none" THEN W1
             ELSE IF calculator = "Compatibility"
               THEN set_weight_calculator([W1 EXCEPT !.calcs = <<compat>>], 1, 1)
             ELSE set_weight_calculator([W1 EXCEPT !.calcs = <<compat, composite>>],
                                        1, 2))

Row(label, timestamp, longitude, latitude) ==
  [label |-> label, timestamp |-> timestamp, longitude |-> longitude,
   latitude |-> latitude, speed_knots |-> 12, heading |-> 90]

\* Trajectory tables: timestamps in minutes, rows labelled 0, 1, ... as read.
Trajectories ==
  { [cols |-> {"timestamp", "longitude", "latitude", "speed_knots", "heading"},
     rows |-> <<Row(0, 0, 1, 1), Row(1, 60, 2, 2), Row(2, 120, 3, 3)>>],
    [cols |-> {"timestamp", "longitude", "latitude"},
     rows |-> <<Row(0, 90, 6, 8), Row(1, 0, 3, 4)>>],
    [cols |-> {"longitude", "latitude", "heading"},
     rows |-> <<Row(0, 0, 5, 5), Row(1, 0, 7, 7)>>] }

SetWeights == {<<1, 2>>, RInt(1)}
Thresholds == {<<1, 2>>}

\* <<min_weight, max_weight, edge_types>> of extract_subgraph; the first is
\* the default of every parameter.
ExtractInputs ==
  { <<RZero, Inf, {}>>, <<(<<1, 2>>), Inf, {"NotCompatible"}>>, <<RZero, (<<1, 2>>), {}>> }
Conditions == {"equal", "less", "less_equal", "greater", "greater_equal"}

\* Iteration orders of a set: one enumeration and its reverse stand for the
\* orders a hash set can produce.
Orderings(S) ==
  LET n == Cardinality(S)
      up == CHOOSE p \in [1..n -> S] : \A i, j \in 1..n : p[i] = p[j] => i = j
  IN  {up, [i \in 1..n |-> up[n + 1 - i]]}

(***************************************************************************)
(* The state machine.                                                      *)
(***************************************************************************)
GraphRefs == 1..Len(graphs)

\* The graphs derived from one another by extract_subgraph share objects on
\* purpose; a copy starts a family of its own.
Family(g) == lineage[g].family

Init ==
  \E list \in InitNodeLists, calculator \in InitCalculators :
    LET W == BuildWorld(list, calculator)
    IN  /\ nodeHeap = W.nodes
        /\ dictHeap = W.dicts
        /\ edgeHeap = W.edges
        /\ calcHeap = W.calcs
        /\ graphs = W.graphs
        /\ lineage = <<[kind |-> "built", of |-> None, family |-> 1]>>
        /\ steps = 0
        /\ last = [op |-> "init", g |-> None, args |-> <<>>, err |-> "", ret |-> 0,
                   rets |-> <<>>, pre |-> W, prelineage |-> <<>>]

\* The run is bounded to MaxSteps operations.
Ready == steps < MaxSteps

\* One operation has run: W is the world it leaves.
Commit(W, lin, op, g, args, err, ret, rets) ==
  /\ \E V \in {W} :
       /\ nodeHeap' = V.nodes
       /\ dictHeap' = V.dicts
       /\ edgeHeap' = V.edges
       /\ calcHeap' = V.calcs
       /\ graphs' = V.graphs
  /\ lineage' = lin
  /\ steps' = steps + 1
  /\ last' = [op |-> op, g |-> g, args |-> args, err |-> err, ret |-> ret,
              rets |-> rets, pre |-> World, prelineage |-> lineage]

\* node = Node(...)
NewNode ==
  /\ Ready
  /\ \E t \in LaterNodes :
       Commit(Node_init(World, t.node_id, t.node_type, t.attrs), lineage,
              "Node", None, <<>>, "", Len(nodeHeap) + 1, <<>>)

\* graph.add_node(node) with the node constructed last
AddNode ==
  /\ Ready
  /\ \E g \in GraphRefs, n \in {Len(nodeHeap)} :
       \E r \in {add_node(World, g, n)} :
         Commit(r.W, lineage, "add_node", g, <<n>>, r.err, 0, <<>>)

\* edge = Edge(source, target, "Compatible") from the first node constructed
NewEdge ==
  /\ Ready
  /\ \E s \in {1}, t \in 2..Len(nodeHeap) :
       Commit(Edge_init(World, s, t, "Compatible", <<>>), lineage,
              "Edge", None, <<s, t>>, "", Len(edgeHeap) + 1, <<>>)

\* The graphs holding the edge object.
Holders(e) == {g \in GraphRefs : e \in Range(graphs[g].edges)}

\* graph.add_edge(edge): a new edge, or an edge the graph's family holds.
AddEdge ==
  /\ Ready
  /\ \E g \in GraphRefs, e \in 1..Len(edgeHeap) :
       /\ \A h \in Holders(e) : Family(h) = Family(g)
       /\ Commit(add_edge(World, g, e), lineage, "add_edge", g, <<e>>, "", 0, <<>>)

\* edge.set_weight(weight) on an edge of a graph
SetWeight ==
  /\ Ready
  /\ \E g \in GraphRefs, w \in SetWeights :
       \E e \in Range(graphs[g].edges) :
         Commit(set_weight(World, e, w), lineage, "set_weight", g, <<e>>, "", 0, <<>>)

\* graph.calculate_edge_weights()
CalculateEdgeWeights ==
  /\ Ready
  /\ \E g \in GraphRefs :
       \E r \in {calculate_edge_weights(World, g)} :
         Commit(r.W, lineage, "calculate_edge_weights", g, <<>>, r.err, 0,
                  r.W.graphs[g].edges)

\* graph.remove_edge(edge)
RemoveEdge ==
  /\ Ready
  /\ \E g \in GraphRefs, e \in 1..Len(edgeHeap) :
       \E r \in {remove_edge(World, g, e)} :
         Commit(r.W, lineage, "remove_edge", g, <<e>>, "",
                  IF r.ret THEN 1 ELSE 0, <<>>)

\* graph.remove_edges_by_weight(condition, threshold)
RemoveEdgesByWeight ==
  /\ Ready
  /\ \E g \in GraphRefs, condition \in Conditions, threshold \in Thresholds :
       \E r \in {remove_edges_by_weight(World, g, condition, threshold)} :
         Commit(r.W, lineage, "remove_edges_by_weight", g, <<condition, threshold>>,
                  "", r.ret, <<>>)

\* graph.extract_subgraph(min_weight, max_weight, edge_types)
ExtractSubgraph ==
  /\ Ready
  /\ \E g \in GraphRefs, in \in ExtractInputs :
       \E c \in {calculate_edge_weights(World, g)} :
         \E order \in Orderings(included_nodes(c.W, filter_edges(c.W, g, in[1], in[2],
                                                                 in[3]))) :
           \E r \in {extract_subgraph(World, g, in[1], in[2], in[3], order)} :
             Commit(r.W,
                    IF r.err = ""
                      THEN Append(lineage, [kind |-> "subgraph", of |-> g,
                                            family |-> Family(g)])
                      ELSE lineage,
                    "extract_subgraph", g, in, r.err, r.ret, order)

\* graph.initialize_edges()
InitializeEdges ==
  /\ Ready
  /\ \E g \in GraphRefs :
       Commit(initialize_edges(World, g), lineage, "initialize_edges", g, <<>>, "", 0, <<>>)

\* graph.update_relationship()
UpdateRelationship ==
  /\ Ready
  /\ \E g \in GraphRefs :
       Commit(update_relationship(World, g), lineage, "update_relationship", g, <<>>,
              "", 0, <<>>)

\* build_equipment_environment_edges(graph)
BuildEquipmentEnvironmentEdges ==
  /\ Ready
  /\ \E g \in GraphRefs :
       \E r \in {build_equipment_environment_edges(World, g)} :
         Commit(r.W, lineage, "build_equipment_environment_edges", g, <<>>, r.err, 0,
                  r.ret)

\* copy_graph(graph)
CopyGraph ==
  /\ Ready
  /\ \E g \in GraphRefs :
       \E r \in {copy_graph(World, g)} :
         Commit(r.W,
                  IF r.err = ""
                    THEN Append(lineage, [kind |-> "copy", of |-> g, family |-> r.ret])
                    ELSE lineage,
                  "copy_graph", g, <<>>, r.err, r.ret, <<>>)

\* Each graph of a returned series is a snapshot of the base graph.
RECURSIVE SnapshotLineage(_, _, _, _)
SnapshotLineage(lin, base_graph, series, i) ==
  IF i > Len(series) THEN lin
  ELSE SnapshotLineage(Append(lin, [kind |-> "snapshot", of |-> base_graph,
                                    family |-> series[i]]),
                       base_graph, series, i + 1)

\* <<trajectory_df, ship_node_id, interval_minutes, max_graphs>>; the full
\* table is read for a ship that is absent from some graphs.
SeriesInputs ==
  {<<tp[1], tp[2], 60, 2>> :
     tp \in {tp \in Trajectories \X {"eq1", "ship_001"} :
               ("speed_knots" \in tp[1].cols) <=> (tp[2] = "ship_001")}}

\* create_dynamic_graph_series(trajectory_df, base_graph, ship_node_id,
\*                             interval_minutes, max_graphs) on a graph that
\* is not itself a snapshot
CreateDynamicGraphSeries ==
  /\ Ready
  /\ \E g \in {b \in GraphRefs : lineage[b].kind = "built"}, in \in SeriesInputs :
       \E r \in {create_dynamic_graph_series(World, in[1], g, in[2], in[3], in[4])} :
         Commit(r.W, SnapshotLineage(lineage, g, r.ret, 1),
                  "create_dynamic_graph_series", g, <<in[2], in[3], in[4]>>, r.err, 0,
                  r.ret)

AttributeUpdates ==
  { <<<<"Value", "Temperature">>, <<"num", 7>>>>,
    <<<<"Meta", "Deck", "Level">>, <<"num", 7>>>> }

\* graph.get_node(node_id).update_attribute({path: value}) on an environment
\* node
UpdateAttribute ==
  /\ Ready
  /\ \E g \in GraphRefs, u \in AttributeUpdates :
       \E n \in {m \in NodeRefs(graphs[g]) : nodeHeap[m].node_type = "Environment"} :
         \E r \in {update_attribute(World, n, u[1], u[2])} :
           Commit(r.W, lineage, "update_attribute", g, <<n, u[1], u[2]>>, r.err, 0, <<>>)

\* update_attribute({path: value}) on an environment node of graph.py's Node
\* class
GraphUpdateAttribute ==
  /\ Ready
  /\ \E g \in GraphRefs, u \in AttributeUpdates :
       \E n \in {m \in NodeRefs(graphs[g]) : nodeHeap[m].node_type = "Environment"} :
         \E r \in {graph_update_attribute(World, n, u[1], u[2])} :
           Commit(r.W, lineage, "graph.update_attribute", g, <<n, u[1], u[2]>>, r.err, 0,
                  <<>>)

\* edge.attributes[key] = value on an edge of a graph
SetEdgeAttribute ==
  /\ Ready
  /\ \E g \in GraphRefs :
       \E e \in Range(graphs[g].edges) :
         Commit([World EXCEPT !.dicts[edgeHeap[e].attributes] = DSet(@, "Note", <<"num", 1>>)],
                lineage, "set_edge_attribute", g, <<e>>, "", 0, <<>>)

\* graph.weight_calculator.set_filter(calculator, threshold, mode)
SetFilter ==
  /\ Ready
  /\ \E g \in GraphRefs, mode \in {"equal", "greater"} :
       /\ graphs[g].weight_calculator # None
       /\ calcHeap[graphs[g].weight_calculator].kind = "Composite"
       /\ Commit(set_filter(World, graphs[g].weight_calculator, 1, RZero, mode),
                 lineage, "set_filter", g, <<mode>>, "", 0, <<>>)

\* graph.weight_calculator.add_calculator(calculator, weight)
AddCalculator ==
  /\ Ready
  /\ \E g \in GraphRefs :
       /\ graphs[g].weight_calculator # None
       /\ calcHeap[graphs[g].weight_calculator].kind = "Composite"
       /\ Commit(add_calculator(World, graphs[g].weight_calculator, 1, RInt(3)),
                 lineage, "add_calculator", g, <<>>, "", 0, <<>>)

\* The graph container and its derived graphs.
Next ==
  \/ NewNode
  \/ AddNode
  \/ NewEdge
  \/ AddEdge
  \/ SetWeight
  \/ RemoveEdge
  \/ RemoveEdgesByWeight
  \/ ExtractSubgraph
  \/ InitializeEdges
  \/ CopyGraph

Spec == Init /\ [][Next]_vars

\* The compatibility evaluator.
NextEval ==
  \/ InitializeEdges
  \/ UpdateRelationship
  \/ BuildEquipmentEnvironmentEdges
  \/ UpdateAttribute
  \/ GraphUpdateAttribute
  \/ SetWeight
  \/ AddEdge

SpecEval == Init /\ [][NextEval]_vars

\* Temporal snapshots and the changes made to them.
NextSnap ==
  \/ InitializeEdges
  \/ CreateDynamicGraphSeries
  \/ UpdateAttribute
  \/ SetEdgeAttribute
  \/ SetWeight
  \/ RemoveEdge
  \/ SetFilter
  \/ AddCalculator

SpecSnap == Init /\ [][NextSnap]_vars

\* <<trajectory_df, ship_node_id, interval_minutes, max_graphs>>: spans of
\* 120 and 90 minutes, sorted and unsorted rows, with and without the
\* timestamp column, intervals that fit max_graphs and intervals that do not.
SeriesSamplings ==
  LET full == [cols |-> {"timestamp", "longitude", "latitude", "speed_knots", "heading"},
               rows |-> <<Row(0, 0, 1, 1), Row(1, 60, 2, 2), Row(2, 120, 3, 3)>>]
      unsorted == [cols |-> {"timestamp", "longitude", "latitude"},
                   rows |-> <<Row(0, 90, 6, 8), Row(1, 0, 3, 4)>>]
      untimed == [cols |-> {"longitude", "latitude", "heading"},
                  rows |-> <<Row(0, 0, 5, 5), Row(1, 0, 7, 7)>>]
  IN  { <<full, "eq1", 60, 2>>, <<full, "eq1", 30, 2>>, <<full, "ship_001", 60, 3>>,
        <<unsorted, "eq1", 60, 2>>, <<unsorted, "env1", 30, 2>>,
        <<untimed, "eq1", 60, 1>>, <<untimed, "env1", 60, 3>> }

\* graph_series, timestamps = create_dynamic_graph_series(trajectory_df,
\*   base_graph, ship_node_id, interval_minutes, max_graphs) on a graph that
\* is not itself a snapshot
SampleGraphSeries ==
  /\ Ready
  /\ \E g \in {b \in GraphRefs : lineage[b].kind = "built"}, in \in SeriesSamplings :
       \E r \in {create_dynamic_graph_series(World, in[1], g, in[2], in[3], in[4])} :
         Commit(r.W, SnapshotLineage(lineage, g, r.ret, 1),
                "create_dynamic_graph_series", g,
                <<in[1], in[2], in[3], in[4], r.timestamps>>, r.err, 0, r.ret)

\* Snapshot series of a graph with computed or hand-set weights.
NextSeries ==
  \/ InitializeEdges
  \/ SetWeight
  \/ SampleGraphSeries

SpecSeries == Init /\ [][NextSeries]_vars

(***************************************************************************)
(* The calculators on one Equipment -> Environment edge.                   *)
(***************************************************************************)
TemperatureRanges == {<<0, 2>>, <<1, 1>>, <<0, 50>>}
HumidityRanges == {<<0, 2>>, <<1, 1>>}
TemperatureValues == {0 - 5, 0, 3, 25, 45, 55}
HumidityValues == {0, 4}

\* Supported_Environment and Value dicts: Temperature, then Humidity if any.
SupportedChoices ==
  {<<<<"Temperature", <<"range", t[1], t[2]>>>>>> : t \in TemperatureRanges}
    \cup {<<<<"Temperature", <<"range", t[1], t[2]>>>>,
            <<"Humidity", <<"range", h[1], h[2]>>>>>> :
            t \in TemperatureRanges, h \in HumidityRanges}

ValueChoices ==
  {<<<<"Temperature", <<"num", t>>>>>> : t \in TemperatureValues}
    \cup {<<<<"Temperature", <<"num", t>>>>, <<"Humidity", <<"num", h>>>>>> :
            t \in TemperatureValues, h \in HumidityValues}

\* Location values: absent, "", a number, "north", "1.0, 2.0, 3.0", "x3.0, 4.0",
\* and two well-formed locations.
MalformedLocations ==
  { <<"none">>, <<"text", <<>>>>, <<"num", 5>>, <<"text", <<<<"word">>>>>>,
    <<"text", <<<<"numeral", 1>>, <<"numeral", 2>>, <<"numeral", 3>>>>>>,
    <<"text", <<<<"word_numeral", 3>>, <<"numeral", 4>>>>>> }
WellFormedLocations == {<<"loc", 0, 0>>, <<"loc", 3, 4>>}

\* <<Supported_Environment, Value, source Location, target Location>>
LocationPairs ==
  ((MalformedLocations \cup WellFormedLocations) \X WellFormedLocations)
    \cup (WellFormedLocations \X MalformedLocations)
    \cup {<<l, l>> : l \in MalformedLocations}

CalcInputs ==
  {<<s, v, (<<"loc", 0, 0>>), (<<"loc", 3, 4>>)>> :
     s \in SupportedChoices, v \in ValueChoices}
    \cup {<<(<<<<"Temperature", <<"range", 0, 2>>>>>>),
            (<<<<"Temperature", <<"num", 3>>>>>>), l[1], l[2]>> : l \in LocationPairs}

\* max_distance as constructed by default, and the geodesic distance in
\* kilometres between the two well-formed locations.
DefaultMaxDistance == 1000
GeodesicKm == 250

\* A node with an optional Location and one nested dict.
CalcNode(node_id, node_type, key, params, location) ==
  [node_id |-> node_id, node_type |-> node_type,
   attrs |-> (IF location = <<"none">> THEN <<>> ELSE <<<<"Location", location>>>>)
               \o <<<<key, <<"lit", params>>>>>>]

\* One equipment node, one environment node, the edge between them, and one
\* calculator of each class; the graph's calculator is the composite one.
BuildCalcWorld(in) ==
  Bind(BuildNodes(SceneGraph_init(EmptyWorld),
                  <<CalcNode("eq", "Equipment", "Supported_Environment", in[1], in[3]),
                    CalcNode("env", "Environment", "Value", in[2], in[4])>>, 1),
       LAMBDA W1 :
         Bind(add_edge(Edge_init(W1, 1, 2, "NotCompatible", <<>>), 1, 1),
              LAMBDA W2 :
                set_weight_calculator(
                  [W2 EXCEPT !.calcs = <<Calculator_init("Compatibility"),
                                         Calculator_init("Distance"),
                                         GeoDistance_init(DefaultMaxDistance, GeodesicKm),
                                         Calculator_init("Composite")>>],
                  1, 4)))

InitCalc ==
  \E in \in CalcInputs :
    LET W == BuildCalcWorld(in)
    IN  /\ nodeHeap = W.nodes
        /\ dictHeap = W.dicts
        /\ edgeHeap = W.edges
        /\ calcHeap = W.calcs
        /\ graphs = W.graphs
        /\ lineage = <<[kind |-> "built", of |-> None, family |-> 1]>>
        /\ steps = 0
        /\ last = [op |-> "init", g |-> None, args |-> <<>>, err |-> "", ret |-> 0,
                   rets |-> <<>>, pre |-> W, prelineage |-> <<>>]

\* The composite calculators.
Composites == {c \in 1..Len(calcHeap) : calcHeap[c].kind = "Composite"}

\* <<calculator, weight>> of add_calculator
AddInputs == {<<1, RInt(1)>>, <<2, RInt(1)>>, <<2, RInt(3)>>, <<3, RZero>>}

\* <<calculator, threshold, mode>> of set_filter
FilterInputs ==
  { <<1, RZero, "equal">>, <<1, RZero, "greater">>, <<2, (<<1, 2>>), "less">>,
    <<2, (<<2, 3>>), "equal">>, <<3, (<<1, 2>>), "greater">>,
    <<1, RZero, "less_equal">> }

\* calculator.calculate(edge, graph) on an edge of the graph
Calculate ==
  /\ Ready
  /\ \E g \in GraphRefs, c \in 1..Len(calcHeap) :
       \E e \in Range(graphs[g].edges) :
         \E r \in {calculate(World, c, e)} :
           Commit(World, lineage, "calculate", g,
                  <<c, e, IF calcHeap[c].kind = "Composite"
                            THEN Composite_invocations(World, c, e) ELSE <<>>>>,
                  r.err, 0, <<r.val>>)

\* composite.add_calculator(calculator, weight)
AddSubCalculator ==
  /\ Ready
  /\ \E c \in Composites, in \in AddInputs :
       Commit(add_calculator(World, c, in[1], in[2]), lineage, "add_calculator",
              None, <<c, in[1], in[2]>>, "", 0, <<>>)

\* composite.set_filter(calculator, threshold, mode)
SetSubFilter ==
  /\ Ready
  /\ \E c \in Composites, in \in FilterInputs :
       Commit(set_filter(World, c, in[1], in[2], in[3]), lineage, "set_filter",
              None, <<c, in[1], in[2], in[3]>>, "", 0, <<>>)

NextCalc ==
  \/ Calculate
  \/ AddSubCalculator
  \/ SetSubFilter

SpecCalc == InitCalc /\ [][NextCalc]_vars

\* graph.filter_edges(edge_filter) with the filter of extract_subgraph
FilterEdges ==
  /\ Ready
  /\ \E g \in GraphRefs, in \in ExtractInputs :
       Commit(World, lineage, "filter_edges", g, in, "", 0,
              filter_edges(World, g, in[1], in[2], in[3]))

\* update_graph_with_trajectory(graph, trajectory_point, ship_node_id) with
\* the first row of a table
UpdateGraphWithTrajectory ==
  /\ Ready
  /\ \E g \in GraphRefs, in \in SeriesInputs :
       \E r \in {update_graph_with_trajectory(World, g, in[1].cols, in[1].rows[1],
                                              in[2])} :
         Commit(r.W, lineage, "update_graph_with_trajectory", g, <<in[2]>>, r.err, 0,
                r.W.graphs[g].edges)

\* Edge weights: the operations that compute them and those that leave them.
NextWeights ==
  \/ InitializeEdges
  \/ CalculateEdgeWeights
  \/ SetWeight
  \/ UpdateAttribute
  \/ NewNode
  \/ AddNode
  \/ AddEdge
  \/ RemoveEdge
  \/ RemoveEdgesByWeight
  \/ FilterEdges
  \/ ExtractSubgraph
  \/ UpdateGraphWithTrajectory

SpecWeights == Init /\ [][NextWeights]_vars

(***************************************************************************)
(* Properties of the graph container (Spec).                               *)
(***************************************************************************)
\* C1: add_node with a node whose node_id is already a key of the graph's node
\* map fails with ValueError and changes nothing: the node registered under
\* the id stays, and every node map and edge list is as before the call.
C1_AddNodeDuplicateRejected ==
  (/\ last.op = "add_node"
   /\ last.pre.nodes[last.args[1]].node_id \in NodeIds(last.pre.graphs[last.g]))
    => /\ last.err = "ValueError"
       /\ get_node(graphs[last.g], nodeHeap[last.args[1]].node_id)
            = get_node(last.pre.graphs[last.g], nodeHeap[last.args[1]].node_id)
       /\ graphs = last.pre.graphs
       /\ World = last.pre

\* A second node object carrying a registered id has been offered to add_node.
C1_Witness ==
  /\ last.op = "add_node"
  /\ last.pre.nodes[last.args[1]].node_id \in NodeIds(last.pre.graphs[last.g])
  /\ get_node(last.pre.graphs[last.g], nodeHeap[last.args[1]].node_id) # last.args[1]

\* C2: in every reachable state, every edge held by a graph has a source node
\* and a target node that are members of that same graph's node map (never
\* None, never a node of another graph).
C2_EdgeEndpointsAreMembers ==
  \A g \in GraphRefs :
    \A e \in Range(graphs[g].edges) :
      /\ edgeHeap[e].source_node \in NodeRefs(graphs[g])
      /\ edgeHeap[e].target_node \in NodeRefs(graphs[g])

\* The edges of a graph that lie in the weight band and have a listed type.
C3_Retained(W, g, min_weight, max_weight, edge_types) ==
  SelectSeq(W.graphs[g].edges,
            LAMBDA e : /\ RLe(min_weight, W.edges[e].weight)
                       /\ RLe(W.edges[e].weight, max_weight)
                       /\ (edge_types = {} \/ W.edges[e].edge_type \in edge_types))

\* C3: a returned subgraph's edge list is exactly the parent's edges, in parent
\* order, with min_weight <= weight <= max_weight (weights as recomputed at
\* the start of the call when a calculator is configured) and a listed type;
\* its node set is exactly the endpoints of those edges: the ids of the
\* endpoints, each naming the parent's node of that id, and the endpoint
\* objects themselves whenever the retained edges join nodes of the parent.
C3_ExtractSubgraphExact ==
  (last.op = "extract_subgraph" /\ last.err = "")
    => LET parent == graphs[last.g]
           sub == graphs[last.ret]
           kept == C3_Retained(World, last.g, last.args[1], last.args[2], last.args[3])
       IN  /\ last.ret = Len(last.pre.graphs) + 1
           /\ parent = last.pre.graphs[last.g]
           /\ IF parent.weight_calculator = None
                THEN edgeHeap = last.pre.edges
                ELSE \A e \in Range(parent.edges) :
                       edgeHeap[e].weight
                         = calculate(last.pre, parent.weight_calculator, e).val
           /\ sub.edges = kept
           /\ NodeIds(sub) = {nodeHeap[n].node_id : n \in Endpoints(World, kept)}
           /\ \A i \in 1..Len(sub.nodes) :
                sub.nodes[i][2] = get_node(parent, sub.nodes[i][1])
           /\ Endpoints(World, kept) \subseteq NodeRefs(parent)
                => NodeRefs(sub) = Endpoints(World, kept)

\* An extraction with an upper bound kept some of the parent's edges and left
\* others out.
C3_Witness ==
  /\ last.op = "extract_subgraph"
  /\ last.err = ""
  /\ last.args[2] # Inf
  /\ graphs[last.ret].edges # <<>>
  /\ Len(graphs[last.ret].edges) < Len(graphs[last.g].edges)

\* The comparison a condition of remove_edges_by_weight names.
C4_Satisfies(condition, weight, threshold) ==
  CASE condition = "equal" -> REq(weight, threshold)
    [] condition = "less" -> RLt(weight, threshold)
    [] condition = "less_equal" -> RLe(weight, threshold)
    [] condition = "greater" -> RLt(threshold, weight)
    [] condition = "greater_equal" -> RLe(threshold, weight)

\* C4: after remove_edges_by_weight(condition, threshold) no remaining edge
\* satisfies the comparison, every edge that did not satisfy it is still
\* present (in order, as often as before), and the returned count is the edge
\* count before minus the edge count after, also when an edge object occurs in
\* the edge list more than once.
C4_RemoveEdgesByWeightPost ==
  last.op = "remove_edges_by_weight"
    => LET before == last.pre.graphs[last.g].edges
           after == graphs[last.g].edges
       IN  /\ \A e \in Range(after) :
                ~C4_Satisfies(last.args[1], edgeHeap[e].weight, last.args[2])
           /\ after = SelectSeq(before,
                                LAMBDA e : ~C4_Satisfies(last.args[1],
                                                         last.pre.edges[e].weight,
                                                         last.args[2]))
           /\ last.ret = Len(before) - Len(after)
           /\ edgeHeap = last.pre.edges
           /\ \A h \in GraphRefs \ {last.g} : graphs[h] = last.pre.graphs[h]

\* An edge object held twice by the edge list has been removed by weight.
C4_Witness ==
  /\ last.op = "remove_edges_by_weight"
  /\ last.ret >= 2
  /\ \E i, j \in 1..Len(last.pre.graphs[last.g].edges) :
       /\ i # j
       /\ last.pre.graphs[last.g].edges[i] = last.pre.graphs[last.g].edges[j]
       /\ last.pre.graphs[last.g].edges[i] \notin Range(graphs[last.g].edges)

(***************************************************************************)
(* Properties of temporal snapshots (SpecSnap).                            *)
(***************************************************************************)
\* The value of a dict with the values of its nested dicts in place.
RECURSIVE C5_DeepDict(_, _)
C5_DeepDict(dicts, d) ==
  [i \in 1..Len(dicts[d]) |->
     IF dicts[d][i][2][1] = "ref"
       THEN <<dicts[d][i][1], <<"dict", C5_DeepDict(dicts, dicts[d][i][2][2])>>>>
       ELSE dicts[d][i]]

\* What a graph shows: its nodes with their attributes at every depth, and its
\* edge list with endpoints, type, attributes and weight.
C5_View(W, g) ==
  [nodes |-> [i \in 1..Len(W.graphs[g].nodes) |->
                LET n == W.nodes[W.graphs[g].nodes[i][2]]
                IN  [key |-> W.graphs[g].nodes[i][1],
                     node_id |-> n.node_id,
                     node_type |-> n.node_type,
                     attributes |-> C5_DeepDict(W.dicts, n.attributes)]],
   edges |-> [i \in 1..Len(W.graphs[g].edges) |->
                LET e == W.edges[W.graphs[g].edges[i]]
                IN  [source |-> IF e.source_node = None THEN "None"
                                ELSE W.nodes[e.source_node].node_id,
                     target |-> IF e.target_node = None THEN "None"
                                ELSE W.nodes[e.target_node].node_id,
                     edge_type |-> e.edge_type,
                     attributes |-> C5_DeepDict(W.dicts, e.attributes),
                     weight |-> e.weight]]]

\* The operations that change a graph's node attributes, edge attributes,
\* edge weights or edge list.
C5_Changes ==
  {"update_attribute", "set_edge_attribute", "set_weight", "remove_edge",
   "initialize_edges"}

\* C5: changing a node attribute (at any depth), an edge attribute, an edge
\* weight or the edge list of one graph of a series, or of the base graph,
\* changes the node attributes, edge attributes, edge weights and edge list
\* of no other snapshot and not of the base graph; building the series
\* changes no graph that existed before.
C5_SnapshotIndependence ==
  /\ last.op \in C5_Changes
       => \A h \in 1..Len(last.pre.graphs) :
            h # last.g => C5_View(World, h) = C5_View(last.pre, h)
  /\ last.op = "create_dynamic_graph_series"
       => \A h \in 1..Len(last.pre.graphs) : C5_View(World, h) = C5_View(last.pre, h)

\* A nested attribute of a node of one snapshot of a series of two has been
\* changed.
C5_Witness ==
  /\ last.op = "update_attribute"
  /\ last.err = ""
  /\ last.args[2] = <<"Value", "Temperature">>
  /\ lineage[last.g].kind = "snapshot"
  /\ C5_View(World, last.g) # C5_View(last.pre, last.g)
  /\ \E h \in GraphRefs \ {last.g} :
       lineage[h].kind = "snapshot" /\ lineage[h].of = lineage[last.g].of

\* The dict objects reachable from a dict.
RECURSIVE C6_DictReach(_, _)
C6_DictReach(dicts, d) ==
  {d} \cup UNION {C6_DictReach(dicts, dicts[d][i][2][2]) :
                    i \in {k \in 1..Len(dicts[d]) : dicts[d][k][2][1] = "ref"}}

\* The calculator objects reachable from a calculator reference.
RECURSIVE C6_CalcReach(_, _)
C6_CalcReach(calcs, c) ==
  IF c = None THEN {}
  ELSE {c} \cup C6_CalcReach(calcs, calcs[c].filter_calculator)
           \cup UNION {C6_CalcReach(calcs, calcs[c].calculators[i][1]) :
                         i \in 1..Len(calcs[c].calculators)}

\* The mutable objects reachable from a graph.
C6_Reach(g) ==
  LET ns == (NodeRefs(graphs[g]) \cup Endpoints(World, graphs[g].edges)) \ {None}
      es == Range(graphs[g].edges)
      ds == UNION ({C6_DictReach(dictHeap, nodeHeap[n].attributes) : n \in ns}
                     \cup {C6_DictReach(dictHeap, edgeHeap[e].attributes) : e \in es})
  IN  {<<"node", n>> : n \in ns} \cup {<<"edge", e>> : e \in es}
        \cup {<<"dict", d>> : d \in ds}
        \cup {<<"calc", c>> : c \in C6_CalcReach(calcHeap, graphs[g].weight_calculator)}

\* C6: no mutable object reachable from a snapshot (node, edge, attribute bag,
\* weight calculator) is reachable from the base graph or another snapshot.
C6_SnapshotsSelfContained ==
  \A g \in GraphRefs, h \in GraphRefs :
    (g # h /\ lineage[g].kind = "snapshot") => C6_Reach(g) \cap C6_Reach(h) = {}

(***************************************************************************)
(* Properties of the compatibility evaluator (SpecEval).                   *)
(***************************************************************************)
\* Some parameter read by v.Value and ranged by q.Supported_Environment lies
\* outside the inclusive range; for a zero-width range: differs from it.
PairViolates(W, q, v) ==
  LET supported_env == AttrDict(W, q, "Supported_Environment")
      env_params == AttrDict(W, v, "Value")
  IN  \E i \in 1..Len(env_params) :
        /\ DHas(supported_env, env_params[i][1])
        /\ env_params[i][2][1] = "num"
        /\ LET min_val == DGet(supported_env, env_params[i][1])[2]
               max_val == DGet(supported_env, env_params[i][1])[3]
               value == env_params[i][2][2]
           IN  IF min_val = max_val THEN value # min_val
               ELSE value < min_val \/ value > max_val

\* An (Equipment, Environment) pair of node objects.
IsEquipEnv(W, q, v) ==
  W.nodes[q].node_type = "Equipment" /\ W.nodes[v].node_type = "Environment"

\* The positions of an edge list whose edge runs from q to v.
PositionsOfPair(W, edges, q, v) ==
  {k \in 1..Len(edges) :
     W.edges[edges[k]].source_node = q /\ W.edges[edges[k]].target_node = v}

\* C7: build_equipment_environment_edges raises nothing; the edges it appends
\* are the edges it returns, each a NotCompatible edge from an Equipment node
\* to an Environment node with a shared parameter out of range, at most one
\* per pair: a pair whose shared parameters are all in range adds nothing.
C7_CompatiblePairsAddNothing ==
  last.op = "build_equipment_environment_edges"
    => LET before == last.pre.graphs[last.g].edges
           after == graphs[last.g].edges
           added == SubSeq(after, Len(before) + 1, Len(after))
       IN  /\ last.err = ""
           /\ SubSeq(after, 1, Len(before)) = before
           /\ added = last.rets
           /\ \A k \in 1..Len(added) :
                LET e == edgeHeap[added[k]]
                IN  /\ e.edge_type = "NotCompatible"
                    /\ IsEquipEnv(World, e.source_node, e.target_node)
                    /\ PairViolates(World, e.source_node, e.target_node)
                    /\ PositionsOfPair(World, added, e.source_node, e.target_node) = {k}

\* C8: after initialize_edges on a graph with an empty edge list, a pair of
\* nodes (q, v) of the graph has exactly one edge q -> v, of type
\* NotCompatible, when q is Equipment, v is Environment and a shared parameter
\* lies outside its inclusive range (a zero-width range: differs from it),
\* and has no edge otherwise.
C8_InitializeEdgesExact ==
  (last.op = "initialize_edges" /\ last.pre.graphs[last.g].edges = <<>>)
    => /\ \A q \in NodeRefs(graphs[last.g]), v \in NodeRefs(graphs[last.g]) :
            Cardinality(PositionsOfPair(World, graphs[last.g].edges, q, v))
              = IF IsEquipEnv(World, q, v) /\ PairViolates(World, q, v) THEN 1 ELSE 0
       /\ \A e \in Range(graphs[last.g].edges) :
            /\ edgeHeap[e].edge_type = "NotCompatible"
            /\ edgeHeap[e].source_node \in NodeRefs(graphs[last.g])
            /\ edgeHeap[e].target_node \in NodeRefs(graphs[last.g])

\* initialize_edges has made an edge for a reading off a zero-width range and
\* has left a compatible (Equipment, Environment) pair without one.
C8_Witness ==
  /\ last.op = "initialize_edges"
  /\ last.pre.graphs[last.g].edges = <<>>
  /\ \E e \in Range(graphs[last.g].edges) :
       LET supported_env == AttrDict(World, edgeHeap[e].source_node,
                                     "Supported_Environment")
           env_params == AttrDict(World, edgeHeap[e].target_node, "Value")
       IN  \E i \in 1..Len(env_params) :
             /\ DHas(supported_env, env_params[i][1])
             /\ DGet(supported_env, env_params[i][1])[2]
                  = DGet(supported_env, env_params[i][1])[3]
             /\ env_params[i][2][2] # DGet(supported_env, env_params[i][1])[2]
  /\ \E q \in NodeRefs(graphs[last.g]), v \in NodeRefs(graphs[last.g]) :
       /\ IsEquipEnv(World, q, v)
       /\ ~PairViolates(World, q, v)
       /\ PositionsOfPair(World, graphs[last.g].edges, q, v) = {}

\* The positions of an edge list holding a NotCompatible edge from q to v.
NotCompatibleOfPair(W, edges, q, v) ==
  {k \in PositionsOfPair(W, edges, q, v) : W.edges[edges[k]].edge_type = "NotCompatible"}

\* C9: update_relationship keeps, for a violating pair that has a
\* NotCompatible edge, that same edge object with its weight and its
\* attribute bag, the Reason overwritten with the current reason, and creates
\* no other; afterwards every violating pair has exactly one NotCompatible
\* edge and no pair has more, and a second call changes nothing: same edge
\* objects, same order.
C9_UpdateRelationshipInPlace ==
  last.op = "update_relationship"
    => LET before == last.pre.graphs[last.g].edges
           after == graphs[last.g].edges
       IN  /\ \A q \in NodeRefs(graphs[last.g]), v \in NodeRefs(graphs[last.g]) :
                LET old == NotCompatibleOfPair(last.pre, before, q, v)
                    new == NotCompatibleOfPair(World, after, q, v)
                IN  /\ Cardinality(new)
                         = IF IsEquipEnv(World, q, v) /\ PairViolates(World, q, v)
                             THEN 1 ELSE 0
                    /\ (new # {} /\ old # {})
                         => \E k \in old :
                              /\ after[CHOOSE j \in new : TRUE] = before[k]
                              /\ edgeHeap[before[k]].weight
                                   = last.pre.edges[before[k]].weight
                              /\ edgeHeap[before[k]].attributes
                                   = last.pre.edges[before[k]].attributes
                              /\ DGet(dictHeap[edgeHeap[before[k]].attributes], "Reason")
                                   = check_compatibility(World, q, v).reason
           /\ update_relationship(World, last.g) = World

\* update_relationship has met an edge it made earlier, whose weight was set
\* since.
C9_Witness ==
  /\ last.op = "update_relationship"
  /\ \E e \in Range(graphs[last.g].edges) \cap Range(last.pre.graphs[last.g].edges) :
       edgeHeap[e].weight # RZero

\* C10: initialize_edges called a second time on the same graph, nothing
\* having changed in between, leaves the edge list as the first call left it.
C10_InitializeEdgesIdempotent ==
  [][(/\ last.op = "initialize_edges"
      /\ last'.op = "initialize_edges"
      /\ last'.g = last.g)
       => graphs'[last.g].edges = graphs[last.g].edges]_vars


(***************************************************************************)
(* C11: calculate_edge_weights on a graph without a calculator raises      *)
(* nothing, returns the graph's edge list and changes no weight, no edge   *)
(* list and no node map.                                                   *)
(***************************************************************************)
C11_NoCalculatorNoOp ==
  (last.op = "calculate_edge_weights"
     /\ last.pre.graphs[last.g].weight_calculator = None)
    => /\ last.err = ""
       /\ last.rets = graphs[last.g].edges
       /\ \A e \in 1..Len(last.pre.edges) : edgeHeap[e].weight = last.pre.edges[e].weight
       /\ \A g \in 1..Len(last.pre.graphs) :
            /\ graphs[g].edges = last.pre.graphs[g].edges
            /\ graphs[g].nodes = last.pre.graphs[g].nodes

\* The call is made on a graph that holds an edge of non-zero weight.
C11_Witness ==
  /\ last.op = "calculate_edge_weights"
  /\ last.pre.graphs[last.g].weight_calculator = None
  /\ \E e \in Range(graphs[last.g].edges) : edgeHeap[e].weight # RZero


(***************************************************************************)
(* C12: when calculate_edge_weights returns normally on a graph with a     *)
(* calculator, every edge of the graph carries the weight the calculator   *)
(* yields for it in the node attributes as they now are; the edge list is  *)
(* the one before the call, in the same order, and is the value returned.  *)
(***************************************************************************)
C12_WeightsAreCalculated ==
  (last.op = "calculate_edge_weights"
     /\ last.pre.graphs[last.g].weight_calculator # None
     /\ last.err = "")
    => /\ \A e \in Range(graphs[last.g].edges) :
            calculate(World, graphs[last.g].weight_calculator, e)
              = [err |-> "", val |-> edgeHeap[e].weight]
       /\ graphs[last.g].edges = last.pre.graphs[last.g].edges
       /\ last.rets = graphs[last.g].edges

\* The call gives two edges of the graph different weights, one of them new.
C12_Witness ==
  /\ last.op = "calculate_edge_weights"
  /\ last.pre.graphs[last.g].weight_calculator # None
  /\ last.err = ""
  /\ \E e, f \in Range(graphs[last.g].edges) :
       /\ edgeHeap[e].weight # edgeHeap[f].weight
       /\ edgeHeap[f].weight # last.pre.edges[f].weight


(***************************************************************************)
(* C13: the weight of an edge object changes only in a step that is        *)
(* calculate_edge_weights (called directly, by extract_subgraph or by      *)
(* update_graph_with_trajectory) or Edge.set_weight. update_attribute,     *)
(* add_node, add_edge, filter_edges, remove_edge and                       *)
(* remove_edges_by_weight leave every weight as it was, so weights are     *)
(* stale until they are recomputed.                                        *)
(***************************************************************************)
C13_WeightWriters ==
  {"calculate_edge_weights", "extract_subgraph", "update_graph_with_trajectory",
   "set_weight"}

C13_WeightsChangeOnlyWhenComputed ==
  \A e \in 1..Len(last.pre.edges) :
    edgeHeap[e].weight # last.pre.edges[e].weight => last.op \in C13_WeightWriters

\* After update_attribute an edge of the graph carries a weight that its
\* calculator no longer yields.
C13_Witness ==
  /\ last.op = "update_attribute"
  /\ last.err = ""
  /\ graphs[last.g].weight_calculator # None
  /\ \E e \in Range(graphs[last.g].edges) :
       /\ edgeHeap[e].weight # RZero
       /\ calculate(World, graphs[last.g].weight_calculator, e).err = ""
       /\ calculate(World, graphs[last.g].weight_calculator, e).val # edgeHeap[e].weight


(***************************************************************************)
(* C14: an extracted subgraph shares the parent's edge objects and         *)
(* calculator: its edges are edge objects of the parent, so a weight set   *)
(* through one graph is the weight seen through the other; the two edge    *)
(* lists are distinct, so remove_edge on one graph leaves the other's list *)
(* as it was; subgraph.weight_calculator is the parent's calculator.       *)
(***************************************************************************)
\* The weights seen through graph g, in the order of its edge list.
C14_WeightsSeen(W, g) ==
  [i \in 1..Len(W.graphs[g].edges) |-> W.edges[W.graphs[g].edges[i]].weight]

C14_SubgraphAliasesParent ==
  /\ (last.op = "extract_subgraph" /\ last.err = "")
       => /\ Range(graphs[last.ret].edges) \subseteq Range(graphs[last.g].edges)
          /\ graphs[last.ret].weight_calculator = graphs[last.g].weight_calculator
          /\ graphs[last.g].edges = last.pre.graphs[last.g].edges
  /\ \A h \in GraphRefs :
       (lineage[h].kind = "subgraph" /\ lineage[h].of \in {last.g} /\ h # last.g)
         => /\ last.op = "remove_edge" /\ h \in 1..Len(last.pre.graphs)
                 => graphs[h].edges = last.pre.graphs[h].edges
            /\ last.op = "set_weight"
                 => \A i \in 1..Len(graphs[h].edges) :
                      graphs[h].edges[i] = last.args[1]
                        => C14_WeightsSeen(World, h)[i] = edgeHeap[last.args[1]].weight
  /\ (last.op \in {"remove_edge", "set_weight"} /\ lineage[last.g].kind = "subgraph")
       => LET p == lineage[last.g].of
          IN  /\ last.op = "remove_edge" => graphs[p].edges = last.pre.graphs[p].edges
              /\ last.op = "set_weight"
                   => \A i \in 1..Len(graphs[p].edges) :
                        graphs[p].edges[i] = last.args[1]
                          => C14_WeightsSeen(World, p)[i] = edgeHeap[last.args[1]].weight

\* A weight set through the subgraph changes the weight seen through the
\* parent.
C14_Witness ==
  /\ last.op = "set_weight"
  /\ lineage[last.g].kind = "subgraph"
  /\ C14_WeightsSeen(World, lineage[last.g].of)
       # C14_WeightsSeen(last.pre, lineage[last.g].of)


(***************************************************************************)
(* C15: on an Equipment -> Environment edge, whenever a parameter present  *)
(* in both the environment's Value and the equipment's                     *)
(* Supported_Environment has a value below its supported minimum,          *)
(* CompatibilityWeightCalculator.calculate raises ValueError, whatever the *)
(* width of the parameter's range and whatever the other parameters are.   *)
(***************************************************************************)
\* Some shared parameter of the edge's endpoints is below its minimum.
C15_BelowMinimum(W, e) ==
  LET supported_env == AttrDict(W, W.edges[e].source_node, "Supported_Environment")
      env_params == AttrDict(W, W.edges[e].target_node, "Value")
  IN  /\ W.nodes[W.edges[e].source_node].node_type = "Equipment"
      /\ W.nodes[W.edges[e].target_node].node_type = "Environment"
      /\ \E i \in 1..Len(env_params) :
           /\ DHas(supported_env, env_params[i][1])
           /\ env_params[i][2][1] = "num"
           /\ env_params[i][2][2] < DGet(supported_env, env_params[i][1])[2]

C15_BelowMinimumRaises ==
  (last.op = "calculate"
     /\ calcHeap[last.args[1]].kind = "Compatibility"
     /\ C15_BelowMinimum(World, last.args[2]))
    => last.err = "ValueError"


(***************************************************************************)
(* C16: whenever CompatibilityWeightCalculator.calculate returns a number  *)
(* for an Equipment -> Environment edge, the number is the arithmetic mean, *)
(* over the shared parameters whose range is not zero, of a score that is  *)
(* 0 for a value within [min, max] and                                     *)
(* 1 - 1/(1 + 0.5*(value - max)/(max - min)) for a value above max; every  *)
(* score and the result lie in [0, 1); the score increases strictly with   *)
(* the value above max; without a scorable parameter the result is 0.      *)
(***************************************************************************)
C16_Score(value, min_val, max_val) ==
  IF value > max_val
    THEN RSub(RInt(1),
              RDiv(RInt(1),
                   RAdd(RInt(1), RMul(<<1, 2>>, Rat(value - max_val, max_val - min_val)))))
    ELSE RZero

\* The positions in Value of the shared parameters with a non-zero range.
C16_Shared(supported_env, env_params) ==
  {i \in 1..Len(env_params) :
     /\ DHas(supported_env, env_params[i][1])
     /\ env_params[i][2][1] = "num"
     /\ DGet(supported_env, env_params[i][1])[2] # DGet(supported_env, env_params[i][1])[3]}

RECURSIVE C16_Sum(_, _, _)
C16_Sum(supported_env, env_params, S) ==
  IF S = {} THEN RZero
  ELSE LET i == CHOOSE j \in S : TRUE
           r == DGet(supported_env, env_params[i][1])
       IN  RAdd(C16_Score(env_params[i][2][2], r[2], r[3]),
                C16_Sum(supported_env, env_params, S \ {i}))

C16_InUnit(r) == RLe(RZero, r) /\ RLt(r, RInt(1))

C17_SymmetricScore(value, min_val, max_val) ==
  RSub(RInt(1), Rat(2 * Abs(2 * value - (min_val + max_val)), 2 * (max_val - min_val)))

C17_SymmetricPolicy ==
  (last.op = "calculate" /\ calcHeap[last.args[1]].kind = "Compatibility")
    => LET supported_env ==
             AttrDict(World, edgeHeap[last.args[2]].source_node, "Supported_Environment")
           env_params == AttrDict(World, edgeHeap[last.args[2]].target_node, "Value")
           S == C16_Shared(supported_env, env_params)
       IN  \A i \in S :
             LET r == DGet(supported_env, env_params[i][1])
                 value == env_params[i][2][2]
             IN  S = {i}
                   => /\ last.err = ""
                      /\ RLe(RInt(0 - 1), last.rets[1]) /\ RLe(last.rets[1], RInt(1))
                      /\ (r[2] <= value /\ value <= r[3])
                           => REq(last.rets[1], C17_SymmetricScore(value, r[2], r[3]))
                      /\ (value < r[2] \/ r[3] < value) => RLt(last.rets[1], RZero)


(***************************************************************************)
(* C18: whenever the Location of the source or of the target node is       *)
(* absent, empty, not a string, or a string that does not parse as exactly *)
(* two numbers, DistanceWeightCalculator.calculate and                     *)
(* GeoDistanceWeightCalculator.calculate return exactly 0.5 and raise      *)
(* nothing.                                                                *)
(***************************************************************************)
\* The numbers the calculator of this class reads in a string: every field
\* as one number for the planar calculator, the numerals found anywhere for
\* the geodesic one.
C18_TwoNumbers(kind, v) ==
  LET fields == Fields(v)
  IN  IF kind = "Distance"
        THEN Len(fields) = 2 /\ \A i \in 1..Len(fields) : fields[i][1] = "numeral"
        ELSE Cardinality({i \in 1..Len(fields) : fields[i][1] # "word"}) = 2

C18_Malformed(kind, v) ==
  \/ v[1] = "none"
  \/ v[1] = "num"
  \/ v[1] \in {"text", "loc"} /\ ~C18_TwoNumbers(kind, v)

C18_MalformedLocationIsNeutral ==
  (last.op = "calculate"
     /\ calcHeap[last.args[1]].kind \in {"Distance", "GeoDistance"}
     /\ \/ C18_Malformed(calcHeap[last.args[1]].kind,
                         Location(World, edgeHeap[last.args[2]].source_node))
        \/ C18_Malformed(calcHeap[last.args[1]].kind,
                         Location(World, edgeHeap[last.args[2]].target_node)))
    => last.err = "" /\ last.rets[1] = <<1, 2>>


(***************************************************************************)
(* C19: when no filter fires and the factors add up to a positive number,  *)
(* CompositeWeightCalculator.calculate returns sum(v_i*w_i)/sum(w_i) over  *)
(* its (sub-calculator, factor) pairs; with all factors equal this is the  *)
(* arithmetic mean of the sub-values; the result is the same for every     *)
(* order in which the pairs could have been added; when the factors add up *)
(* to 0 the result is 0.                                                   *)
(***************************************************************************)
\* The filter comparison of a composite calculator on a filter value.
C19_Predicate(mode, v, t) ==
  \/ mode = "equal" /\ REq(v, t)
  \/ mode = "less" /\ RLe(v, t)
  \/ mode = "greater" /\ RLe(t, v)

\* A filter is set and its comparison holds on the edge.
C19_FilterFires(W, c, e) ==
  /\ W.calcs[c].filter_calculator # None
  /\ calculate(W, W.calcs[c].filter_calculator, e).err = ""
  /\ C19_Predicate(W.calcs[c].filter_mode,
                   calculate(W, W.calcs[c].filter_calculator, e).val,
                   W.calcs[c].filter_threshold)

\* The sum of terms[i] over the positions i of S.
RECURSIVE C19_Sum(_, _)
C19_Sum(terms, S) ==
  IF S = {} THEN RZero
  ELSE LET i == CHOOSE j \in S : TRUE
       IN  RAdd(terms[i], C19_Sum(terms, S \ {i}))

\* The calculator lists that hold the same pairs in another order.
C19_Reorderings(pairs) ==
  {[i \in 1..Len(pairs) |-> pairs[p[i]]] :
     p \in {q \in [1..Len(pairs) -> 1..Len(pairs)] :
              \A i, j \in 1..Len(pairs) : q[i] = q[j] => i = j}}

C19_WeightedAverage ==
  (last.op = "calculate"
     /\ calcHeap[last.args[1]].kind = "Composite"
     /\ last.err = ""
     /\ ~C19_FilterFires(World, last.args[1], last.args[2]))
    => LET c == last.args[1]
           e == last.args[2]
           pairs == calcHeap[c].calculators
           S == 1..Len(pairs)
           value == [i \in S |-> calculate(World, pairs[i][1], e).val]
           weighted == [i \in S |-> RMul(value[i], pairs[i][2])]
           factor == [i \in S |-> pairs[i][2]]
           total_factor == C19_Sum(factor, S)
       IN  /\ RLt(RZero, total_factor)
                => REq(last.rets[1], RDiv(C19_Sum(weighted, S), total_factor))
           /\ (RLt(RZero, total_factor) /\ \A i, j \in S : pairs[i][2] = pairs[j][2])
                => REq(last.rets[1], RDiv(C19_Sum(value, S), RInt(Len(pairs))))
           /\ REq(total_factor, RZero) => REq(last.rets[1], RZero)
           /\ \A other \in C19_Reorderings(pairs) :
                calculate([World EXCEPT !.calcs[c].calculators = other], c, e)
                  = [err |-> "", val |-> last.rets[1]]

\* Two pairs with different factors and different sub-values: the result is
\* neither sub-value.
C19_Witness ==
  /\ last.op = "calculate"
  /\ calcHeap[last.args[1]].kind = "Composite"
  /\ last.err = ""
  /\ ~C19_FilterFires(World, last.args[1], last.args[2])
  /\ Len(calcHeap[last.args[1]].calculators) = 2
  /\ calcHeap[last.args[1]].calculators[1][2] # calcHeap[last.args[1]].calculators[2][2]
  /\ \A i \in 1..2 :
       /\ RLt(RZero, calcHeap[last.args[1]].calculators[i][2])
       /\ calculate(World, calcHeap[last.args[1]].calculators[i][1], last.args[2]).val
            # last.rets[1]


(***************************************************************************)
(* C20: whenever a filter sub-calculator is set on a composite calculator  *)
(* and the comparison holds for the filter's value on the edge, calculate  *)
(* returns exactly 0 for the edge, whatever the values and factors of the  *)
(* sub-calculators.                                                        *)
(***************************************************************************)
C20_FilterShortCircuit ==
  (last.op = "calculate"
     /\ calcHeap[last.args[1]].kind = "Composite"
     /\ C19_FilterFires(World, last.args[1], last.args[2]))
    => last.err = "" /\ last.rets[1] = RZero

\* The filter fires on a composite whose weighted average without the filter
\* is not 0.
C20_Witness ==
  /\ last.op = "calculate"
  /\ calcHeap[last.args[1]].kind = "Composite"
  /\ C19_FilterFires(World, last.args[1], last.args[2])
  /\ last.rets[1] = RZero
  /\ LET unfiltered ==
           calculate([World EXCEPT !.calcs[last.args[1]].filter_calculator = None],
                     last.args[1], last.args[2])
     IN  unfiltered.err = "" /\ RLt(RZero, unfiltered.val)


(***************************************************************************)
(* C21: with threshold t and filter value v, the filter predicate of a     *)
(* composite calculator holds iff v = t in mode "equal", iff v <= t in     *)
(* mode "less", and iff v >= t in mode "greater"; in mode "less_equal",    *)
(* which should_filter does not recognise, it never holds.                 *)
(***************************************************************************)
\* The filter value of composite c on edge e, where the filter yields one.
C21_FilterValued(c, e) ==
  /\ calcHeap[c].kind = "Composite"
  /\ calcHeap[c].filter_calculator # None
  /\ calculate(World, calcHeap[c].filter_calculator, e).err = ""

C22_UnsupportedModeIsFatal ==
  (last.op = "calculate"
     /\ calcHeap[last.args[1]].kind = "Composite"
     /\ calcHeap[last.args[1]].filter_calculator # None
     /\ calcHeap[last.args[1]].calculators # <<>>
     /\ calcHeap[last.args[1]].filter_mode \notin {"equal", "less", "greater"})
    => last.err # ""


(***************************************************************************)
(* C23: create_dynamic_graph_series returns a graph sequence and a         *)
(* timestamp sequence of equal length, one new graph per tick in tick      *)
(* order, and never more than max_graphs of them: when span/interval       *)
(* exceeds max_graphs the interval is widened to span/max_graphs and the   *)
(* count is max_graphs; every tick lies between the first and the last     *)
(* sample timestamp.                                                       *)
(***************************************************************************)
C23_SeriesWithinCap ==
  (last.op = "create_dynamic_graph_series" /\ last.err = "")
    => LET rows == last.args[1].rows
           max_graphs == last.args[4]
           timestamps == last.args[5]
           stamps == {rows[k].timestamp : k \in 1..Len(rows)}
           first == CHOOSE t \in stamps : \A u \in stamps : t <= u
           final == CHOOSE t \in stamps : \A u \in stamps : u <= t
       IN  /\ Len(last.rets) = Len(timestamps)
           /\ Len(last.rets) <= max_graphs
           /\ \A i \in 1..Len(last.rets) :
                /\ last.rets[i] = Len(last.pre.graphs) + i
                /\ lineage[last.rets[i]] = [kind |-> "snapshot", of |-> last.g,
                                            family |-> last.rets[i]]
           /\ "timestamp" \in last.args[1].cols
                => /\ \A i \in 1..Len(timestamps) :
                        first <= timestamps[i] /\ timestamps[i] <= final
                   /\ \A i \in 1..(Len(timestamps) - 1) : timestamps[i] < timestamps[i + 1]
                   /\ (final - first) > max_graphs * last.args[3]
                        => /\ Len(timestamps) = max_graphs
                           /\ \A i \in 1..Len(timestamps) :
                                timestamps[i]
                                  = first + ((i - 1) * (final - first)) \div max_graphs

\* The interval asked for does not fit: 120 minutes at 30 minutes with at
\* most two graphs.
C23_Witness ==
  /\ last.op = "create_dynamic_graph_series"
  /\ last.err = ""
  /\ "timestamp" \in last.args[1].cols
  /\ last.args[1].rows[Len(last.args[1].rows)].timestamp > last.args[4] * last.args[3]
  /\ Len(last.rets) = 2


(***************************************************************************)
(* C24: for each tick, the sample that create_dynamic_graph_series writes  *)
(* into the snapshot is the sample whose timestamp is nearest to the tick, *)
(* the earliest such sample on a tie, also when the rows of the table were *)
(* not in timestamp order.                                                 *)
(***************************************************************************)
\* The i-th tick: the first timestamp plus i - 1 intervals, the interval
\* widened to span/max_graphs when the one asked for does not fit.
C24_Tick(rows, interval_minutes, max_graphs, i) ==
  LET stamps == {rows[k].timestamp : k \in 1..Len(rows)}
      first == CHOOSE t \in stamps : \A u \in stamps : t <= u
      final == CHOOSE t \in stamps : \A u \in stamps : u <= t
      interval == IF final - first > max_graphs * interval_minutes
                    THEN Rat(final - first, max_graphs)
                    ELSE RInt(interval_minutes)
  IN  RAdd(RInt(first), RMul(RInt(i - 1), interval))

\* The row nearest to the tick, the earliest one on a tie.
C24_Nearest(rows, tick) ==
  LET diff(k) == RAbs(RSub(RInt(rows[k].timestamp), tick))
      least == {k \in 1..Len(rows) : \A j \in 1..Len(rows) : RLe(diff(k), diff(j))}
  IN  rows[CHOOSE k \in least : \A j \in least : rows[k].timestamp <= rows[j].timestamp]

C24_NearestSampleIsUsed ==
  (last.op = "create_dynamic_graph_series"
     /\ last.err = ""
     /\ "timestamp" \in last.args[1].cols
     /\ last.args[2] \in NodeIds(graphs[last.g]))
    => \A i \in 1..Len(last.rets) :
         LET sample == C24_Nearest(last.args[1].rows,
                                   C24_Tick(last.args[1].rows, last.args[3],
                                            last.args[4], i))
         IN  Location(World, get_node(graphs[last.rets[i]], last.args[2]))
               = <<"loc", sample.longitude, sample.latitude>>


(***************************************************************************)
(* C26: updating an attribute by its path.                                 *)
(***************************************************************************)
\* The attributes `deep` with `value` put at the path, containers that are
\* missing on the way created.
RECURSIVE C26_Put(_, _, _, _)
C26_Put(deep, path, i, value) ==
  IF i = Len(path) THEN DSet(deep, path[i], value)
  ELSE IF ~DHas(deep, path[i])
    THEN Append(deep, <<path[i], <<"dict", C26_Put(<<>>, path, i + 1, value)>>>>)
    ELSE [deep EXCEPT ![DIdx(deep, path[i])] =
            <<path[i], <<"dict", C26_Put(DGet(deep, path[i])[2], path, i + 1, value)>>>>]

\* A key of the path is missing from the attributes.
RECURSIVE C26_Missing(_, _, _)
C26_Missing(deep, path, i) ==
  \/ ~DHas(deep, path[i])
  \/ /\ i < Len(path)
     /\ DGet(deep, path[i])[1] = "dict"
     /\ C26_Missing(DGet(deep, path[i])[2], path, i + 1)

\* The attributes of node n at every depth.
C26_Attributes(W, n) == C5_DeepDict(W.dicts, W.nodes[n].attributes)

\* The update has put the value at the path and has left every attribute off
\* the path, and every other node, as it was.
C26_Updated ==
  /\ C26_Attributes(World, last.args[1])
       = C26_Put(C26_Attributes(last.pre, last.args[1]), last.args[2], 1, last.args[3])
  /\ \A m \in 1..Len(last.pre.nodes) :
       m # last.args[1] => C26_Attributes(World, m) = C26_Attributes(last.pre, m)

\* Nothing has changed.
C26_Untouched ==
  \A m \in 1..Len(last.pre.nodes) : C26_Attributes(World, m) = C26_Attributes(last.pre, m)

C25_Selected(trajectory_df, interval_minutes, max_graphs, i) ==
  IF "timestamp" \in trajectory_df.cols
    THEN LET df == sort_values(trajectory_df.rows, Len(trajectory_df.rows))
         IN  df[closest_idx(df, sample_times(df, interval_minutes, max_graphs)[i]) + 1]
    ELSE trajectory_df.rows[linspace_indices(Len(trajectory_df.rows),
                                             MinOf(max_graphs, Len(trajectory_df.rows)))[i] + 1]

\* The ids of a graph's nodes with their types.
C25_Types(W, g) ==
  {<<W.graphs[g].nodes[j][1], W.nodes[W.graphs[g].nodes[j][2]].node_type>> :
     j \in 1..Len(W.graphs[g].nodes)}

\* C25: in every snapshot of a series built for a mobile node of the base
\* graph, the node ids and node types are the base graph's; the mobile node's
\* Location holds the selected sample's longitude and latitude, and its
\* Value.Speed and Value.Heading the sample's speed and heading when the
\* table has them; every other node has the attributes of the base graph's
\* node; and every edge carries the weight the graph's calculator yields on
\* the snapshot as updated.
C25_SnapshotContent ==
  (last.op = "create_dynamic_graph_series"
     /\ last.err = ""
     /\ last.args[2] \in NodeIds(last.pre.graphs[last.g]))
    => \A i \in 1..Len(last.rets) :
         LET snapshot == last.rets[i]
             sample == C25_Selected(last.args[1], last.args[3], last.args[4], i)
             ship_node == get_node(graphs[snapshot], last.args[2])
         IN  /\ C25_Types(World, snapshot) = C25_Types(last.pre, last.g)
             /\ Location(World, ship_node) = <<"loc", sample.longitude, sample.latitude>>
             /\ "speed_knots" \in last.args[1].cols
                  => /\ DHas(AttrDict(World, ship_node, "Value"), "Speed")
                     /\ DGet(AttrDict(World, ship_node, "Value"), "Speed")
                          = <<"speed", sample.speed_knots>>
             /\ "heading" \in last.args[1].cols
                  => /\ DHas(AttrDict(World, ship_node, "Value"), "Heading")
                     /\ DGet(AttrDict(World, ship_node, "Value"), "Heading")
                          = <<"heading", sample.heading>>
             /\ \A id \in NodeIds(graphs[snapshot]) \ {last.args[2]} :
                  C26_Attributes(World, get_node(graphs[snapshot], id))
                    = C26_Attributes(last.pre, get_node(last.pre.graphs[last.g], id))
             /\ graphs[snapshot].weight_calculator # None
                  => \A e \in Range(graphs[snapshot].edges) :
                       LET r == calculate(World, graphs[snapshot].weight_calculator, e)
                       IN  r.err = "" /\ r.val = edgeHeap[e].weight

\* A series of two snapshots has been built for a mobile node from a table
\* with speeds and headings, on a base graph whose calculator gives an edge
\* another weight than the one that had been set by hand.
C25_Witness ==
  /\ last.op = "create_dynamic_graph_series"
  /\ last.err = ""
  /\ last.args[2] \in NodeIds(last.pre.graphs[last.g])
  /\ "speed_knots" \in last.args[1].cols
  /\ Len(last.rets) = 2
  /\ \E j \in 1..Len(graphs[last.rets[2]].edges) :
       edgeHeap[graphs[last.rets[2]].edges[j]].weight
         # last.pre.edges[last.pre.graphs[last.g].edges[j]].weight


(***************************************************************************)
(* C27: the filter of a composite calculator is evaluated once.            *)
(***************************************************************************)
\* How often calculator x occurs among the invocations.
C27_Count(invocations, x) ==
  Cardinality({k \in 1..Len(invocations) : invocations[k] = x})

\* C27: one call of CompositeWeightCalculator.calculate with a filter set and
\* a non-empty list of sub-calculators invokes the filter's calculate exactly
\* once, also when entries of the list are the filter itself; and when the
\* filter's value satisfies the predicate, it invokes no other calculator.
C27_FilterEvaluatedOnce ==
  (last.op = "calculate"
     /\ calcHeap[last.args[1]].kind = "Composite"
     /\ calcHeap[last.args[1]].filter_calculator # None
     /\ calcHeap[last.args[1]].calculators # <<>>)
    => LET calc == calcHeap[last.args[1]]
       IN  /\ C27_Count(last.args[3], calc.filter_calculator) = 1
           /\ C19_FilterFires(World, last.args[1], last.args[2])
                => last.args[3] = <<calc.filter_calculator>>

\* A composite whose list holds its filter has computed a weight, the
\* predicate not holding: the filter's value was needed twice and its
\* calculate was invoked once.
C27_Witness ==
  /\ last.op = "calculate"
  /\ last.err = ""
  /\ calcHeap[last.args[1]].kind = "Composite"
  /\ calcHeap[last.args[1]].filter_calculator # None
  /\ \E k \in 1..Len(calcHeap[last.args[1]].calculators) :
       calcHeap[last.args[1]].calculators[k][1] = calcHeap[last.args[1]].filter_calculator
  /\ ~C19_FilterFires(World, last.args[1], last.args[2])
  /\ last.args[3] = <<calcHeap[last.args[1]].filter_calculator>>


(***************************************************************************)
(* C28: calculate_edge_weights stops at the first edge whose calculation   *)
(* raises and undoes nothing.                                              *)
(***************************************************************************)
\* The positions of the edge list at which the graph's calculator raises.
C28_Failing(W, g) ==
  {k \in 1..Len(W.graphs[g].edges) :
     calculate(W, W.graphs[g].weight_calculator, W.graphs[g].edges[k]).err # ""}

\* C28: when the calculator raises at the k-th edge of the list, the error
\* reaches the caller of calculate_edge_weights, every edge at a position
\* before k carries its newly calculated weight, and the k-th edge and the
\* edges after it (those that do not also stand before k) keep the weight
\* they had.
C28_NotAtomic ==
  (last.op = "calculate_edge_weights" /\ last.err # "")
    => LET edges == last.pre.graphs[last.g].edges
           calculator == last.pre.graphs[last.g].weight_calculator
           failing == C28_Failing(last.pre, last.g)
       IN  /\ failing # {}
           /\ LET k == CHOOSE j \in failing : \A m \in failing : j <= m
              IN  /\ last.err = calculate(last.pre, calculator, edges[k]).err
                  /\ graphs[last.g].edges = edges
                  /\ \A j \in 1..(k - 1) :
                       edgeHeap[edges[j]].weight
                         = calculate(last.pre, calculator, edges[j]).val
                  /\ \A m \in k..Len(edges) :
                       edges[m] \notin {edges[j] : j \in 1..(k - 1)}
                         => edgeHeap[edges[m]].weight = last.pre.edges[edges[m]].weight

\* The calculator raised at the second edge: the first edge has changed its
\* weight and the second has kept the weight it had.
C28_Witness ==
  /\ last.op = "calculate_edge_weights"
  /\ last.err = "ValueError"
  /\ C28_Failing(last.pre, last.g) = {2}
  /\ edgeHeap[graphs[last.g].edges[1]].weight
       # last.pre.edges[graphs[last.g].edges[1]].weight


(***************************************************************************)
(* C29: update_relationship replaces the edge list of the graph.           *)
(***************************************************************************)
\* The (Equipment, Environment) pairs of the graph that violate now.
C29_Violating(g) ==
  {p \in NodeRefs(graphs[g]) \X NodeRefs(graphs[g]) :
     IsEquipEnv(World, p[1], p[2]) /\ PairViolates(World, p[1], p[2])}

C30_Copies(i) ==
  LET m == Len(last.pre.graphs[last.g].edges)
  IN  [j \in 1..m |-> Len(last.pre.edges) + (i - 1) * m + j]

\* An edge as it shows: the ids of its endpoints, its type and its attributes.
C30_Shown(W, e) ==
  [source |-> W.nodes[W.edges[e].source_node].node_id,
   target |-> W.nodes[W.edges[e].target_node].node_id,
   edge_type |-> W.edges[e].edge_type,
   attributes |-> C5_DeepDict(W.dicts, W.edges[e].attributes)]

\* C30: when the mobile node is in the base graph, the edge list of each
\* snapshot is the list of the copies of the base graph's edges, in order,
\* without those whose weight after the recomputation is 0: no edge of a
\* snapshot has weight 0, and without a calculator an edge left at weight 0
\* is absent. The base graph's edge list and weights are as they were. When
\* the mobile node is not in the base graph, each snapshot is a copy of the
\* base graph with every edge and every weight.
C30_ZeroWeightEdgesDropped ==
  (last.op = "create_dynamic_graph_series" /\ last.err = "")
    => LET base == last.pre.graphs[last.g]
       IN  /\ graphs[last.g].edges = base.edges
           /\ \A e \in Range(base.edges) : edgeHeap[e].weight = last.pre.edges[e].weight
           /\ last.args[2] \in NodeIds(base)
                => \A i \in 1..Len(last.rets) :
                     LET copies == C30_Copies(i)
                         snapshot == graphs[last.rets[i]]
                     IN  /\ \A j \in 1..Len(copies) :
                              /\ C30_Shown(World, copies[j]) = C30_Shown(last.pre, base.edges[j])
                              /\ base.weight_calculator = None
                                   => edgeHeap[copies[j]].weight
                                        = last.pre.edges[base.edges[j]].weight
                         /\ snapshot.edges
                              = SelectSeq(copies, LAMBDA e : ~REq(edgeHeap[e].weight, RZero))
                         /\ \A e \in Range(snapshot.edges) :
                              ~REq(edgeHeap[e].weight, RZero)
           /\ last.args[2] \notin NodeIds(base)
                => \A i \in 1..Len(last.rets) :
                     C5_View(World, last.rets[i]) = C5_View(last.pre, last.g)

\* A snapshot built for a mobile node holds some of the base graph's edges
\* and not all of them.
C30_Witness ==
  /\ last.op = "create_dynamic_graph_series"
  /\ last.err = ""
  /\ last.args[2] \in NodeIds(last.pre.graphs[last.g])
  /\ \E i \in 1..Len(last.rets) :
       /\ graphs[last.rets[i]].edges # <<>>
       /\ Len(graphs[last.rets[i]].edges) < Len(last.pre.graphs[last.g].edges)

====
